---- MODULE Spec2Model ----
(***************************************************************************)
(* Roadmap application: the batched cell-edit pipeline of the Home page    *)
(* (handleCellSave / processBatchedUpdate / handleEditModeToggle) on top   *)
(* of the useInitiatives hook (fetchInitiatives / updateInitiative), and   *)
(* the column mutations of useColumnMutation (addColumn / updateColumn /   *)
(* deleteColumn / reorderColumns) against the column_config registry and   *)
(* the physical columns of roadmap_fields.                                 *)
(*                                                                         *)
(* The browser runs one thread: every action below is one run of a         *)
(* handler from one await to the next (continuations that are chained by   *)
(* promise resolution alone run in the same step, as microtasks do).  The  *)
(* store answers each call at a time of its own choosing and may reject    *)
(* it.  The list is the one of the 'All' tab, without product filter or    *)
(* search term.  Column mutations are called one at a time (one            *)
(* administrator); the unique column_name constraint and the two RPCs are  *)
(* defined by a migration that is not part of the sources and follow the   *)
(* specification's sections 4.1 and 4.2.                                   *)
(*                                                                         *)
(* SpecEdit is the page in edit mode, SpecPopup the page with the          *)
(* initiative popup saving single fields, SpecCol the column mutations     *)
(* called freely, SpecManager the ColumnManager dialog calling them.  The  *)
(* column list component that hands ids to handleReorder is not part of    *)
(* the sources: it hands over the ids of the group it shows.               *)
(***************************************************************************)
EXTENDS Integers, Sequences, FiniteSets, TLC

\* ------------------------------------------------------------------ bounds
MaxEdits   == 2      \* handleCellSave calls in one run
MaxToggles == 3      \* clicks on the edit-mode button in one run
MaxFetches == 3      \* fetchInitiatives calls in one run
MaxPopupSaves == 2   \* saves of the initiative popup in one run
MaxCalls   == 2      \* column mutations in one run
MaxNameLen == 2      \* characters in a column name
MaxReorders == 1     \* updateInitiativeOrder calls in one run
MaxChanges == 2      \* handleFieldChange calls of the popup in one run
MaxPopupFetches == 2 \* fetchInitiatives calls after which the popup is not closed again

\* ------------------------------------------------------------------ records
Rows == {1, 2}

StringFields == {"Status", "Initiative"}
Fields == StringFields \cup {"priority_rank"}

\* JS null, per column type (a rank is a positive number or null)
NullStr == "NULL"
NoRank == 0

\* the values a cell editor can hand to handleCellSave
Values(f) ==
  CASE f = "Status" -> {"Active", "Completed"}
    [] f = "Initiative" -> {"", "x"}

\* "no such row" (Array.find gives undefined)
NoRec == <<>>

\* {...rec, ...upd}
Spread(rec, upd) ==
  [k \in DOMAIN rec \cup DOMAIN upd |-> IF k \in DOMAIN upd THEN upd[k] ELSE rec[k]]

\* the empty object {}
Empty == [k \in {} |-> NullStr]

VARIABLES
  store,           \* table roadmap_fields: row id -> record
  initiatives,     \* useInitiatives: the in-memory list (sequence of records)
  loading,         \* useInitiatives: loading flag (the list is not rendered while set)
  isEditMode,      \* Home: edit mode
  savingCells,     \* Home: set of <<row, column>> marked saving
  pendingUpdates,  \* Home: pendingUpdatesRef, row -> buffered changes (Empty: no entry)
  updateTimeout,   \* Home: updateTimeoutRef, the timer handle kept for a row
  timers,          \* the browser: the timers that are armed (set and neither fired nor cleared)
  flushes,         \* processBatchedUpdate calls that reached updateInitiative
  toggles,         \* handleEditModeToggle calls waiting in Promise.all: sets of flush ids
  fetches,         \* fetchInitiatives calls
  nToggles,        \* clicks on the edit-mode button so far
  orders,          \* updateInitiativeOrder calls: the background writes not yet answered
  popup,           \* Home: selectedInitiative (0: null); InitiativePopup: the pending
                   \* call of debouncedSave (its arguments; NoRec: none)
  editSnapshot,    \* observer: row -> the in-memory record when the row's buffer entry was created
  hist,            \* observer: the edits recorded (during: the row's flushes in flight
                   \* when the edit was recorded) and the store updates issued, in order
  column_config,   \* table column_config: set of column definitions
  roadmap_columns, \* the physical columns of roadmap_fields
  colOp,           \* the column mutation in progress (one administrative actor)
  colLog,          \* observer: the column mutations called, what each saw, did and returned
  manager,         \* ColumnManager: open, its useColumns' columns, localColumns, handler
                   \* position; observer: the ids of the handleReorder call localColumns
                   \* stems from and the ids of localColumns before it
  refetchEvents    \* the 'columns:refetch' events dispatched: the length of colLog at each

editVars == <<store, initiatives, loading, isEditMode, savingCells, pendingUpdates,
              updateTimeout, timers, flushes, toggles, fetches, nToggles, popup,
              orders, editSnapshot, hist>>
colVars == <<column_config, roadmap_columns, colOp, colLog>>
dlgVars == <<manager, refetchEvents>>
vars == <<editVars, colVars, dlgVars>>

\* ------------------------------------------------------------------ helpers
Range(s) == {s[i] : i \in DOMAIN s}

Find(list, id) ==
  IF \E i \in DOMAIN list : list[i].ID = id
  THEN list[CHOOSE i \in DOMAIN list : list[i].ID = id /\ \A j \in 1..(i-1) : list[j].ID # id]
  ELSE NoRec

\* findIndex, 1-based; 0 when absent
FindIndex(list, id) ==
  IF \E i \in DOMAIN list : list[i].ID = id
  THEN CHOOSE i \in DOMAIN list : list[i].ID = id /\ \A j \in 1..(i-1) : list[j].ID # id
  ELSE 0

Edits == SelectSeq(hist, LAMBDA e : e.t = "edit")

RECURSIVE SetToSeq(_)
SetToSeq(S) ==
  IF S = {} THEN <<>>
  ELSE LET m == CHOOSE x \in S : \A y \in S : x <= y
       IN <<m>> \o SetToSeq(S \ {m})

\* ------------------------------------------------------------------ the store's select
\* ascending text order of the Status values in use
StatusOrd(s) == IF s = "Active" THEN 1 ELSE IF s = "Completed" THEN 3 ELSE 4

\* .order('Status').order('sort_order').order('ID') of the 'All' tab
RowBefore(a, b) ==
  \/ StatusOrd(a.Status) < StatusOrd(b.Status)
  \/ /\ a.Status = b.Status
     /\ \/ a.sort_order < b.sort_order
        \/ a.sort_order = b.sort_order /\ a.ID < b.ID

SelectAll(st) ==
  LET ids == SortSeq(SetToSeq(DOMAIN st), LAMBDA x, y : RowBefore(st[x], st[y]))
  IN [i \in DOMAIN ids |-> st[ids[i]]]

\* .update(payload).eq('ID', id)
StoreUpdate(st, id, payload) ==
  IF id \in DOMAIN st THEN [st EXCEPT ![id] = Spread(@, payload)] ELSE st

\* ------------------------------------------------------------------ fetchInitiatives: ranks
NonCompleted(data) == SelectSeq(data, LAMBDA r : r.Status # "Completed")

Completed(data) == SelectSeq(data, LAMBDA r : r.Status = "Completed")

WithRank(data, r) ==
  IF r.Status = "Completed"
  THEN [r EXCEPT !.priority_rank = NoRank]
  ELSE [r EXCEPT !.priority_rank =
          IF r.priority_rank # NoRank THEN r.priority_rank
          ELSE FindIndex(NonCompleted(data), r.ID)]

InitiativesWithRank(data) == [i \in DOMAIN data |-> WithRank(data, data[i])]

\* variant: every non-Completed record is written its index, ranked or not
UpdatesNeeded_Renumbers(data) ==
  {[ID |-> r.ID, priority_rank |-> NoRank] :
      r \in {c \in Range(Completed(data)) : c.priority_rank # NoRank}}
  \cup
  {[ID |-> NonCompleted(data)[i].ID, priority_rank |-> i] : i \in DOMAIN NonCompleted(data)}

UpdatesNeeded(data) ==
  {[ID |-> r.ID, priority_rank |-> NoRank] :
      r \in {c \in Range(Completed(data)) : c.priority_rank # NoRank}}
  \cup
  {[ID |-> NonCompleted(data)[i].ID, priority_rank |-> i] :
      i \in {j \in DOMAIN NonCompleted(data) : NonCompleted(data)[j].priority_rank = NoRank}}

\* ------------------------------------------------------------------ updateInitiative: payload
\* empty strings become null
CleanValue(k, v) == IF k \in StringFields /\ v = "" THEN NullStr ELSE v

\* variant: the payload keeps whatever rank it was given
CleanedUpdates_KeepsRank(updates) ==
  [k \in DOMAIN updates |-> CleanValue(k, updates[k])]

CleanedUpdates(updates) ==
  LET cleaned == [k \in DOMAIN updates |-> CleanValue(k, updates[k])]
  IN IF "Status" \in DOMAIN cleaned /\ cleaned["Status"] = "Completed"
     THEN Spread(cleaned, [priority_rank |-> NoRank])
     ELSE cleaned

\* ------------------------------------------------------------------ handlers as state transformers
\* The page state a handler reads and writes, as one record.
Cur ==
  [store |-> store, initiatives |-> initiatives, loading |-> loading,
   isEditMode |-> isEditMode, savingCells |-> savingCells,
   pendingUpdates |-> pendingUpdates, updateTimeout |-> updateTimeout,
   timers |-> timers, popup |-> popup, orders |-> orders,
   flushes |-> flushes, toggles |-> toggles, fetches |-> fetches,
   editSnapshot |-> editSnapshot, hist |-> hist]

Commit(s) ==
  /\ store' = s.store
  /\ initiatives' = s.initiatives
  /\ loading' = s.loading
  /\ isEditMode' = s.isEditMode
  /\ savingCells' = s.savingCells
  /\ pendingUpdates' = s.pendingUpdates
  /\ updateTimeout' = s.updateTimeout
  /\ timers' = s.timers
  /\ popup' = s.popup
  /\ orders' = s.orders
  /\ flushes' = s.flushes
  /\ toggles' = s.toggles
  /\ fetches' = s.fetches
  /\ editSnapshot' = s.editSnapshot
  /\ hist' = s.hist
  /\ UNCHANGED <<colVars, dlgVars>>

\* fetchInitiatives up to its await: setLoading(true), the select is sent.
\* waiter: the flush whose updateInitiative awaits this fetch (0: nobody).
FetchInitiatives(s, waiter) ==
  [s EXCEPT !.loading = TRUE,
            !.fetches = Append(@, [stage |-> "sent", writes |-> {},
                                   waiter |-> waiter, data |-> <<>>])]

\* setInitiatives(prev => prev.map(init => init.ID === id ? {...init, ...cleaned} : init))
OptimisticUpdate(list, id, cleaned) ==
  [i \in DOMAIN list |-> IF list[i].ID = id THEN Spread(list[i], cleaned) ELSE list[i]]

\* setInitiatives(prev => prev.map(init => init.ID === id ? previousInitiative : init))
Revert(list, id, previous) ==
  IF previous = NoRec THEN list
  ELSE [i \in DOMAIN list |-> IF list[i].ID = id THEN previous ELSE list[i]]

\* updateInitiative up to its await: clean, remember the previous record,
\* apply optimistically, send the update.  (Observer, together: the updates of
\* the same row that are unanswered when this one is sent.)
UpdateInitiative(s, id, updates, cause) ==
  LET cleaned == CleanedUpdates(updates)
      previous == Find(s.initiatives, id)
  IN [s EXCEPT
        !.initiatives = OptimisticUpdate(@, id, cleaned),
        !.flushes = Append(@, [row |-> id, updates |-> updates, payload |-> cleaned,
                               previous |-> previous, preEdit |-> s.editSnapshot[id],
                               cause |-> cause, stage |-> "sent", fetch |-> 0,
                               result |-> "none", reverted |-> NoRec,
                               together |-> {j \in DOMAIN s.flushes :
                                               /\ s.flushes[j].row = id
                                               /\ s.flushes[j].stage = "sent"}]),
        !.hist = Append(@, [t |-> "update", row |-> id, updates |-> updates,
                            payload |-> cleaned, cause |-> cause,
                            flush |-> Len(s.flushes) + 1])]

\* a timer handle: the row its callback flushes and a number telling it from
\* the other handles of that row
Handle(rowId, n) == [row |-> rowId, n |-> n]

\* updateTimeoutRef.current.get(rowId), as the set of handles kept for the row
TimeoutOf(s, rowId) == {h \in s.updateTimeout : h.row = rowId}

\* variant: the entry is deleted, the timer is left armed
ClearRowTimeout_KeepsTimer(s, rowId) ==
  [s EXCEPT !.updateTimeout = @ \ TimeoutOf(s, rowId)]

\* if (timeout) { clearTimeout(timeout); updateTimeoutRef.current.delete(rowId) }
ClearRowTimeout(s, rowId) ==
  [s EXCEPT !.timers = @ \ TimeoutOf(s, rowId),
            !.updateTimeout = @ \ TimeoutOf(s, rowId)]

\* setTimeout(() => processBatchedUpdate(rowId), 300) and
\* updateTimeoutRef.current.set(rowId, timeout): a handle not in use is armed
\* and replaces the row's entry
SetRowTimeout(s, rowId) ==
  LET inUse == {h.n : h \in s.timers \cup s.updateTimeout}
      n == CHOOSE k \in 1..(Cardinality(inUse) + 1) : k \notin inUse
  IN [s EXCEPT !.timers = @ \cup {Handle(rowId, n)},
               !.updateTimeout = (@ \ TimeoutOf(s, rowId)) \cup {Handle(rowId, n)}]

\* variant: the row's buffer is not emptied when it is flushed
ProcessBatchedUpdate_KeepsBuffer(s, rowId, cause) ==
  LET updates == s.pendingUpdates[rowId]
      cellKeys == {<<rowId, col>> : col \in DOMAIN updates}
  IN IF DOMAIN updates = {} THEN s
     ELSE LET s1 == UpdateInitiative(s, rowId, updates, cause)
          IN [ClearRowTimeout(s1, rowId) EXCEPT
                        !.savingCells = @ \cup cellKeys,
                        !.editSnapshot[rowId] = NoRec]

\* processBatchedUpdate up to its await.
ProcessBatchedUpdate(s, rowId, cause) ==
  LET updates == s.pendingUpdates[rowId]
      cellKeys == {<<rowId, col>> : col \in DOMAIN updates}
  IN IF DOMAIN updates = {} THEN s
     ELSE LET s1 == UpdateInitiative(s, rowId, updates, cause)
          IN [ClearRowTimeout(s1, rowId) EXCEPT
                        !.pendingUpdates[rowId] = Empty,
                        !.savingCells = @ \cup cellKeys,
                        !.editSnapshot[rowId] = NoRec]

\* handleEditModeToggle after its Promise.all: everything is cleared.
ExitEditMode(s) ==
  [s EXCEPT !.timers = @ \ s.updateTimeout,
            !.updateTimeout = {},
            !.pendingUpdates = [r \in Rows |-> Empty],
            !.savingCells = {},
            !.isEditMode = FALSE,
            !.editSnapshot = [r \in Rows |-> NoRec]]

\* The toggles whose flushes have all settled run their continuation.
SettleToggles(s) ==
  LET ready == {T \in s.toggles : \A k \in T : s.flushes[k].stage = "done"}
  IN IF ready = {} THEN s
     ELSE [ExitEditMode(s) EXCEPT !.toggles = s.toggles \ ready]

\* processBatchedUpdate after its await: toast on failure, finally remove the
\* flush's cell keys; then whoever awaits the flush goes on.  (The popup's
\* debouncedSave calls updateInitiative itself and has no cell keys.)
FinishFlush(s, k, result) ==
  LET f == s.flushes[k]
      cellKeys == IF f.cause = "popup" THEN {}
                  ELSE {<<f.row, col>> : col \in DOMAIN f.updates}
  IN SettleToggles([s EXCEPT !.savingCells = @ \ cellKeys,
                             !.flushes[k].stage = "done",
                             !.flushes[k].result = result])

\* ------------------------------------------------------------------ actions: cell edits
\* A cell editor is rendered for the rows of the list, in edit mode, while the
\* list is not loading, and is disabled while its cell is marked saving.
CellEditable(rowId, columnName) ==
  /\ isEditMode
  /\ ~loading
  /\ Find(initiatives, rowId) # NoRec
  /\ <<rowId, columnName>> \notin savingCells

\* EditableCell calls onSave only with a value other than the one it shows
ValueChanged(rowId, columnName, newValue) ==
  Find(initiatives, rowId)[columnName] # newValue

HandleCellSave(rowId, columnName, newValue, immediate) ==
  /\ CellEditable(rowId, columnName)
  /\ ValueChanged(rowId, columnName, newValue)
  /\ Len(Edits) < MaxEdits
  /\ LET currentUpdates == pendingUpdates[rowId]
         s1 == [ClearRowTimeout(Cur, rowId) EXCEPT
                  !.savingCells = @ \cup {<<rowId, columnName>>},
                  !.pendingUpdates[rowId] =
                      Spread(currentUpdates, [c \in {columnName} |-> newValue]),
                  !.editSnapshot[rowId] =
                      IF DOMAIN currentUpdates = {} THEN Find(initiatives, rowId) ELSE @,
                  !.hist = Append(@, [t |-> "edit", row |-> rowId, field |-> columnName,
                                      value |-> newValue, imm |-> immediate,
                                      first |-> DOMAIN currentUpdates = {},
                                      during |-> {k \in DOMAIN flushes :
                                                    /\ flushes[k].row = rowId
                                                    /\ flushes[k].stage # "done"}])]
     IN IF immediate
        THEN Commit(ProcessBatchedUpdate(s1, rowId, "immediate"))
        ELSE Commit(SetRowTimeout(s1, rowId))
  /\ UNCHANGED nToggles

\* an armed 300 ms timer fires: its callback is processBatchedUpdate(rowId)
TimerFire(h) ==
  /\ h \in timers
  /\ Commit(ProcessBatchedUpdate([Cur EXCEPT !.timers = @ \ {h}], h.row, "timer"))
  /\ UNCHANGED nToggles

RECURSIVE FlushRows(_, _)
FlushRows(s, rowIds) ==
  IF rowIds = <<>> THEN s
  ELSE FlushRows(ProcessBatchedUpdate(s, Head(rowIds), "exit"), Tail(rowIds))

HandleEditModeToggle ==
  /\ nToggles < MaxToggles
  /\ nToggles' = nToggles + 1
  /\ IF isEditMode
     THEN LET pendingRowIds == SetToSeq({r \in Rows : DOMAIN pendingUpdates[r] # {}})
              s1 == FlushRows(Cur, pendingRowIds)
              flushPromises == (Len(flushes) + 1)..Len(s1.flushes)
          IN Commit(SettleToggles([s1 EXCEPT !.toggles = @ \cup {flushPromises}]))
     ELSE Commit([Cur EXCEPT !.isEditMode = TRUE])

\* ------------------------------------------------------------------ actions: the store answers an update
\* An update is answered in one step: the store processes it and the awaiting
\* handler goes on with the result.  A select is answered in two: the store
\* reads the rows, and later the handler receives them.

\* the update of flush k is applied; updateInitiative gets { error: null }
\* and returns true
UpdateSucceeded(k) ==
  /\ flushes[k].stage = "sent"
  /\ Commit(FinishFlush([Cur EXCEPT !.store = StoreUpdate(@, flushes[k].row,
                                                          flushes[k].payload)],
                        k, "true"))
  /\ UNCHANGED nToggles

\* updateInitiative gets an error (the store changed nothing): revert, toast,
\* await fetchInitiatives()
UpdateFailed(k) ==
  /\ flushes[k].stage = "sent"
  /\ Len(fetches) < MaxFetches
  /\ LET f == flushes[k]
         list == Revert(initiatives, f.row, f.previous)
         s1 == [Cur EXCEPT !.initiatives = list,
                           !.flushes[k].stage = "refetch",
                           !.flushes[k].fetch = Len(fetches) + 1,
                           !.flushes[k].reverted = Find(list, f.row)]
     IN Commit(FetchInitiatives(s1, k))
  /\ UNCHANGED nToggles

\* ------------------------------------------------------------------ actions: fetchInitiatives
\* the updateInitiative that awaited fetch i returns false
AfterFetch(s, i) ==
  IF s.fetches[i].waiter = 0 THEN s ELSE FinishFlush(s, s.fetches[i].waiter, "false")

\* the store runs the select of fetch i: the rows as they are now travel back
SelectServed(s, i) ==
  [s EXCEPT !.fetches[i].stage = "served",
            !.fetches[i].data = SelectAll(s.store)]

FetchServed(i) ==
  /\ fetches[i].stage = "sent"
  /\ Commit(SelectServed(Cur, i))
  /\ UNCHANGED nToggles

\* fetchInitiatives gets the rows: ranks are filled in, the rank writes are
\* sent, the list is replaced, loading ends
FetchReturned(s, i) ==
  LET data == s.fetches[i].data
      needed == UpdatesNeeded(data)
      s1 == [s EXCEPT !.initiatives = InitiativesWithRank(data),
                      !.loading = FALSE,
                      !.fetches[i].writes = needed,
                      !.fetches[i].data = <<>>,
                      !.fetches[i].stage = IF needed = {} THEN "done" ELSE "writing"]
  IN AfterFetch(s1, i)

FetchLoaded(i) ==
  /\ fetches[i].stage = "served"
  /\ Commit(FetchReturned(Cur, i))
  /\ UNCHANGED nToggles

\* fetchInitiatives gets an error: toast, loading ends, the list stays
FetchThrown(s, i) ==
  AfterFetch([s EXCEPT !.loading = FALSE, !.fetches[i].stage = "done"], i)

FetchFailed(i) ==
  /\ fetches[i].stage = "sent"
  /\ Commit(FetchThrown(Cur, i))
  /\ UNCHANGED nToggles

\* Promise.all(...).then(() => fetchInitiatives()) once every rank write of
\* fetch i is answered
RankWritesThen(s, i) ==
  IF s.fetches[i].writes # {} THEN s
  ELSE FetchInitiatives([s EXCEPT !.fetches[i].stage = "done"], 0)

\* .update({ priority_rank }).eq('ID', update.ID) is answered: applied (ok)
\* or rejected; the promise resolves either way
RankWrite(s, i, w, ok) ==
  LET s1 == [s EXCEPT
               !.store = IF ok THEN StoreUpdate(@, w.ID,
                                                [priority_rank |-> w.priority_rank])
                         ELSE @,
               !.fetches[i].writes = @ \ {w}]
  IN RankWritesThen(s1, i)

\* the store answers one of the parallel rank writes of fetch i: applied
\* (ok) or rejected
RankWriteAnswered(i, w, ok) ==
  /\ fetches[i].stage = "writing"
  /\ w \in fetches[i].writes
  /\ fetches[i].writes = {w} => Len(fetches) < MaxFetches
  /\ Commit(RankWrite(Cur, i, w, ok))
  /\ UNCHANGED nToggles

\* ------------------------------------------------------------------ initial state
Row(id, status, name, rank, order) ==
  [ID |-> id, Status |-> status, Initiative |-> name, priority_rank |-> rank,
   sort_order |-> order]

\* the tables before the page is opened
InitialStores ==
  {[r \in Rows |-> IF r = 1 THEN Row(1, "Active", "a", 1, 0) ELSE second] :
     second \in {Row(2, "Active", "b", 2, 1),
                 Row(2, "Completed", "b", NoRank, 1)}}

\* Home is mounted: useInitiatives' effect has called fetchInitiatives
EditInit ==
  /\ store \in InitialStores
  /\ initiatives = <<>>
  /\ loading = TRUE
  /\ isEditMode = FALSE
  /\ savingCells = {}
  /\ pendingUpdates = [r \in Rows |-> Empty]
  /\ updateTimeout = {}
  /\ timers = {}
  /\ flushes = <<>>
  /\ toggles = {}
  /\ fetches = <<[stage |-> "sent", writes |-> {}, waiter |-> 0, data |-> <<>>]>>
  /\ nToggles = 0
  /\ popup = [initiative |-> 0, pending |-> NoRec]
  /\ orders = <<>>
  /\ editSnapshot = [r \in Rows |-> NoRec]
  /\ hist = <<>>

\* ------------------------------------------------------------------ column registry and physical columns
\* /^[a-z][a-z0-9_]*$/
LowerCase == {"a", "b", "c", "d", "e", "f", "g", "h", "i", "j", "k", "l", "m",
              "n", "o", "p", "q", "r", "s", "t", "u", "v", "w", "x", "y", "z"}

Digit == {"0", "1", "2", "3", "4", "5", "6", "7", "8", "9"}

ValidColumnName(column_name) ==
  /\ Len(column_name) >= 1
  /\ column_name[1] \in LowerCase
  /\ \A i \in 2..Len(column_name) : column_name[i] \in LowerCase \cup Digit \cup {"_"}

\* column names are strings over a sample of the characters
Alphabet == {"a", "1", "_", "A"}

Names == UNION {[1..n -> Alphabet] : n \in 0..MaxNameLen}

ColumnConfig(id, column_name, display_name, data_type, is_visible, sort_order, is_system_column) ==
  [id |-> id, column_name |-> column_name, display_name |-> display_name,
   data_type |-> data_type, is_visible |-> is_visible, sort_order |-> sort_order,
   is_system_column |-> is_system_column]

\* the registry after the migration: the system columns, here a capitalised
\* one (as "Status") and a lower-case one (as "team")
SystemColumns ==
  {ColumnConfig(1, <<"A">>, "Status", "text", TRUE, 0, TRUE),
   ColumnConfig(2, <<"a">>, "Team", "text", TRUE, 1, TRUE)}

\* no column mutation in progress
Idle == [pc |-> "idle"]

ColInit ==
  /\ column_config = SystemColumns
  /\ roadmap_columns = {c.column_name : c \in SystemColumns}
  /\ colOp = Idle
  /\ colLog = <<>>

\* the orders in which the elements of a set can be listed
Perms(S) ==
  {q \in [1..Cardinality(S) -> S] : \A i, j \in 1..Cardinality(S) : i # j => q[i] # q[j]}

\* fetchColumns' select: .select('*').order('sort_order', {ascending: true});
\* rows with equal sort_order come in any order
FetchedColumns(table) ==
  {q \in Perms(table) : \A i, j \in DOMAIN q : i < j => q[i].sort_order <= q[j].sort_order}

\* ColumnManager is mounted closed; its useColumns has fetched the registry
ManagerInit ==
  /\ manager \in {[open |-> FALSE, pc |-> "idle", columns |-> q,
                    localColumns |-> <<>>, pending |-> <<>>, lastReorder |-> NoRec] :
                     q \in FetchedColumns(SystemColumns)}
  /\ refetchEvents = <<>>

Init == EditInit /\ ColInit /\ ManagerInit

\* the columns ListView renders an editor for (priority_rank has none)
EditableColumns == Fields \ {"priority_rank"}

EditNext ==
  \/ \E rowId \in Rows, columnName \in EditableColumns, immediate \in BOOLEAN :
        \E newValue \in Values(columnName) :
          HandleCellSave(rowId, columnName, newValue, immediate)
  \/ \E h \in timers : TimerFire(h)
  \/ HandleEditModeToggle
  \/ \E k \in DOMAIN flushes : UpdateSucceeded(k)
  \/ \E k \in DOMAIN flushes : UpdateFailed(k)
  \/ \E i \in DOMAIN fetches : FetchServed(i)
  \/ \E i \in DOMAIN fetches : FetchLoaded(i)
  \/ \E i \in DOMAIN fetches : FetchFailed(i)
  \/ \E i \in DOMAIN fetches : \E w \in fetches[i].writes, ok \in BOOLEAN :
        RankWriteAnswered(i, w, ok)

SpecEdit == Init /\ [][EditNext]_vars

\* ------------------------------------------------------------------ InitiativePopup
\* the values a field of the popup can hand to handleFieldChange
PopupValues(f) == IF f = "priority_rank" THEN {NoRank, 1, 2} ELSE Values(f)

PopupSaves == SelectSeq(hist, LAMBDA e : e.t = "update" /\ e.cause = "popup")

\* debouncedSave fires for an existing initiative: onUpdate(initiative.ID,
\* {[field]: value}), which is updateInitiative
PopupSave(id, field, value) ==
  /\ Len(PopupSaves) < MaxPopupSaves
  /\ Find(initiatives, id) # NoRec
  /\ Commit(UpdateInitiative(Cur, id, [c \in {field} |-> value], "popup"))
  /\ UNCHANGED nToggles

\* onClose of the popup: setSelectedInitiative(null); refetch()
PopupClose ==
  /\ initiatives # <<>>
  /\ Len(fetches) < MaxFetches
  /\ Commit(FetchInitiatives(Cur, 0))
  /\ UNCHANGED nToggles

\* the page in view mode with the popup open on a row of the list
PopupNext ==
  \/ \E id \in Rows, field \in Fields : \E value \in PopupValues(field) :
        PopupSave(id, field, value)
  \/ PopupClose
  \/ \E k \in DOMAIN flushes : UpdateSucceeded(k)
  \/ \E k \in DOMAIN flushes : UpdateFailed(k)
  \/ \E i \in DOMAIN fetches : FetchServed(i)
  \/ \E i \in DOMAIN fetches : FetchLoaded(i)
  \/ \E i \in DOMAIN fetches : FetchFailed(i)
  \/ \E i \in DOMAIN fetches : \E w \in fetches[i].writes, ok \in BOOLEAN :
        RankWriteAnswered(i, w, ok)

SpecPopup == Init /\ [][PopupNext]_vars

\* ------------------------------------------------------------------ column mutations: store and gateway
\* column_config rejects a second row with the same column_name (error 23505)
DuplicateKey(table, column_name) == \E c \in table : c.column_name = column_name

\* add_column_to_roadmap: fails if the field exists physically
AddPhysicalField(fields, col_name) ==
  IF col_name \in fields THEN [error |-> TRUE, fields |-> fields]
  ELSE [error |-> FALSE, fields |-> fields \cup {col_name}]

\* drop_column_from_roadmap: fails if the field is absent
RemovePhysicalField(fields, col_name) ==
  IF col_name \notin fields THEN [error |-> TRUE, fields |-> fields]
  ELSE [error |-> FALSE, fields |-> fields \ {col_name}]

\* .order('sort_order', {ascending: false}).limit(1).single(): null when the
\* read fails or finds no row
MaxData(table, ok) ==
  IF ok /\ table # {}
  THEN CHOOSE c \in table : \A d \in table : d.sort_order <= c.sort_order
  ELSE NoRec

\* .select('is_system_column').eq('id', columnId).single()
SelectById(table, columnId, ok) ==
  IF ok /\ \E c \in table : c.id = columnId
  THEN CHOOSE c \in table : c.id = columnId
  ELSE NoRec

\* .delete().eq('id', id)
DeleteById(table, id) == {c \in table : c.id # id}

\* .update(updates).eq('id', id)
UpdateById(table, id, updates) ==
  {IF c.id = id THEN Spread(c, updates) ELSE c : c \in table}

\* ------------------------------------------------------------------ column mutations: the log
\* a call of the hook is entered in the log with what it was given and the
\* registry and physical columns it found
NewCall(op, params) ==
  [op |-> op, params |-> params, before |-> column_config,
   beforeFields |-> roadmap_columns, result |-> "pending", error |-> "none",
   calls |-> <<>>]

\* one store or gateway call of the running mutation and whether it succeeded
Called(log, what, ok) ==
  [log EXCEPT ![Len(log)].calls = Append(@, [call |-> what, ok |-> ok])]

Returned(log, result, error) ==
  [log EXCEPT ![Len(log)].result = result, ![Len(log)].error = error]

\* the call made last
LastCall == colLog[Len(colLog)]

\* the database generates the id of an inserted row
NewId == Cardinality(SystemColumns) + Len(colLog)

\* ------------------------------------------------------------------ addColumn
\* addColumn up to its first await: the name check; then the max read is sent
AddColumn(params) ==
  /\ colOp.pc = "idle"
  /\ Len(colLog) < MaxCalls
  /\ IF ~ValidColumnName(params.column_name)
     THEN /\ colLog' = Returned(Append(colLog, NewCall("addColumn", params)),
                                "null", "InvalidName")
          /\ colOp' = Idle
     ELSE /\ colLog' = Append(colLog, NewCall("addColumn", params))
          /\ colOp' = [pc |-> "add_max", params |-> params]
  /\ UNCHANGED <<column_config, roadmap_columns>>
  /\ UNCHANGED editVars

\* the max sort_order read is answered; the insert is sent
AddColumnMaxRead(ok) ==
  /\ colOp.pc = "add_max"
  /\ LET maxData == MaxData(column_config, ok)
         maxSortOrder == IF maxData = NoRec THEN 0 ELSE maxData.sort_order
     IN colOp' = [pc |-> "add_insert", params |-> colOp.params,
                  maxSortOrder |-> maxSortOrder]
  /\ colLog' = Called(colLog, "max", ok)
  /\ UNCHANGED <<column_config, roadmap_columns>>
  /\ UNCHANGED editVars

\* variant: a duplicate-key answer is taken for success
AddColumnInserted_IgnoresDuplicate(ok) ==
  /\ colOp.pc = "add_insert"
  /\ LET params == colOp.params
         columnData == ColumnConfig(NewId, params.column_name, params.display_name,
                                    params.data_type, params.is_visible, colOp.maxSortOrder + 1, FALSE)
     IN IF ~ok
        THEN /\ colLog' = Returned(Called(colLog, "insert", FALSE), "null", "StoreError")
             /\ colOp' = Idle
             /\ UNCHANGED column_config
        ELSE IF DuplicateKey(column_config, params.column_name)
        THEN /\ colLog' = Called(colLog, "insert", FALSE)
             /\ colOp' = [pc |-> "add_rpc", params |-> params, columnData |-> columnData]
             /\ UNCHANGED column_config
        ELSE /\ colLog' = Called(colLog, "insert", TRUE)
             /\ colOp' = [pc |-> "add_rpc", params |-> params, columnData |-> columnData]
             /\ column_config' = column_config \cup {columnData}
  /\ UNCHANGED roadmap_columns
  /\ UNCHANGED editVars

\* variant: the new row takes the greatest sort_order itself
AddColumnInserted_SameSortOrder(ok) ==
  /\ colOp.pc = "add_insert"
  /\ LET params == colOp.params
         columnData == ColumnConfig(NewId, params.column_name, params.display_name,
                                    params.data_type, params.is_visible, colOp.maxSortOrder, FALSE)
     IN IF ~ok
        THEN /\ colLog' = Returned(Called(colLog, "insert", FALSE), "null", "StoreError")
             /\ colOp' = Idle
             /\ UNCHANGED column_config
        ELSE IF DuplicateKey(column_config, params.column_name)
        THEN /\ colLog' = Returned(Called(colLog, "insert", FALSE), "null", "DuplicateKey")
             /\ colOp' = Idle
             /\ UNCHANGED column_config
        ELSE /\ colLog' = Called(colLog, "insert", TRUE)
             /\ colOp' = [pc |-> "add_rpc", params |-> params, columnData |-> columnData]
             /\ column_config' = column_config \cup {columnData}
  /\ UNCHANGED roadmap_columns
  /\ UNCHANGED editVars

\* the insert is answered: 23505 -> null; another error -> thrown -> null;
\* else the RPC is sent
AddColumnInserted(ok) ==
  /\ colOp.pc = "add_insert"
  /\ LET params == colOp.params
         columnData == ColumnConfig(NewId, params.column_name, params.display_name,
                                    params.data_type, params.is_visible, colOp.maxSortOrder + 1, FALSE)
     IN IF ~ok
        THEN /\ colLog' = Returned(Called(colLog, "insert", FALSE), "null", "StoreError")
             /\ colOp' = Idle
             /\ UNCHANGED column_config
        ELSE IF DuplicateKey(column_config, params.column_name)
        THEN /\ colLog' = Returned(Called(colLog, "insert", FALSE), "null", "DuplicateKey")
             /\ colOp' = Idle
             /\ UNCHANGED column_config
        ELSE /\ colLog' = Called(colLog, "insert", TRUE)
             /\ colOp' = [pc |-> "add_rpc", params |-> params, columnData |-> columnData]
             /\ column_config' = column_config \cup {columnData}
  /\ UNCHANGED roadmap_columns
  /\ UNCHANGED editVars

\* add_column_to_roadmap is answered: success -> columnData is returned;
\* rpcError -> the compensating delete is sent
AddColumnRpc(ok) ==
  /\ colOp.pc = "add_rpc"
  /\ LET r == AddPhysicalField(roadmap_columns, colOp.params.column_name)
     IN IF ok /\ ~r.error
        THEN /\ roadmap_columns' = r.fields
             /\ colLog' = Returned(Called(colLog, "add_column_to_roadmap", TRUE), "data", "none")
             /\ colOp' = Idle
        ELSE /\ colLog' = Called(colLog, "add_column_to_roadmap", FALSE)
             /\ colOp' = [colOp EXCEPT !.pc = "add_rollback"]
             /\ UNCHANGED roadmap_columns
  /\ UNCHANGED column_config
  /\ UNCHANGED editVars

\* variant: no compensating delete reaches the registry
AddColumnRollback_NoDelete(ok) ==
  /\ colOp.pc = "add_rollback"
  /\ UNCHANGED column_config
  /\ colLog' = Returned(Called(colLog, "rollback", ok), "null", "RpcError")
  /\ colOp' = Idle
  /\ UNCHANGED roadmap_columns
  /\ UNCHANGED editVars

\* the compensating delete is answered, its outcome is not looked at;
\* rpcError is thrown -> null
AddColumnRollback(ok) ==
  /\ colOp.pc = "add_rollback"
  /\ column_config' = IF ok THEN DeleteById(column_config, colOp.columnData.id)
                      ELSE column_config
  /\ colLog' = Returned(Called(colLog, "rollback", ok), "null", "RpcError")
  /\ colOp' = Idle
  /\ UNCHANGED roadmap_columns
  /\ UNCHANGED editVars

\* ------------------------------------------------------------------ updateColumn
\* the fields of params that are not undefined
\* variant: every field of params goes into the update
ColumnUpdates_CopiesAll(params) == [k \in DOMAIN params \ {"id"} |-> params[k]]

\* the update object: display_name, is_visible and sort_order are copied from
\* params when they are there, nothing else is
ColumnUpdates(params) ==
  [k \in DOMAIN params \cap {"display_name", "is_visible", "sort_order"} |-> params[k]]

\* updateColumn up to its await: the update is sent
UpdateColumn(params) ==
  /\ colOp.pc = "idle"
  /\ Len(colLog) < MaxCalls
  /\ colLog' = Append(colLog, NewCall("updateColumn", params))
  /\ colOp' = [pc |-> "update", params |-> params, updates |-> ColumnUpdates(params)]
  /\ UNCHANGED <<column_config, roadmap_columns>>
  /\ UNCHANGED editVars

\* the update is answered: error -> thrown -> false
UpdateColumnAnswered(ok) ==
  /\ colOp.pc = "update"
  /\ column_config' = IF ok THEN UpdateById(column_config, colOp.params.id, colOp.updates)
                      ELSE column_config
  /\ colLog' = Returned(Called(colLog, "update", ok),
                        IF ok THEN "true" ELSE "false",
                        IF ok THEN "none" ELSE "StoreError")
  /\ colOp' = Idle
  /\ UNCHANGED roadmap_columns
  /\ UNCHANGED editVars

\* ------------------------------------------------------------------ deleteColumn
\* deleteColumn up to its first await: the is_system_column read is sent
DeleteColumn(columnId, columnName) ==
  /\ colOp.pc = "idle"
  /\ Len(colLog) < MaxCalls
  /\ colLog' = Append(colLog, NewCall("deleteColumn",
                                      [columnId |-> columnId, columnName |-> columnName]))
  /\ colOp' = [pc |-> "del_read", columnId |-> columnId, columnName |-> columnName]
  /\ UNCHANGED <<column_config, roadmap_columns>>
  /\ UNCHANGED editVars

\* the read is answered, only its data is looked at: column?.is_system_column
\* -> false; else the registry delete is sent
DeleteColumnRead(ok) ==
  /\ colOp.pc = "del_read"
  /\ LET column == SelectById(column_config, colOp.columnId, ok)
     IN IF column # NoRec /\ column.is_system_column
        THEN /\ colLog' = Returned(Called(colLog, "read", ok), "false", "Forbidden")
             /\ colOp' = Idle
        ELSE /\ colLog' = Called(colLog, "read", ok)
             /\ colOp' = [colOp EXCEPT !.pc = "del_delete"]
  /\ UNCHANGED <<column_config, roadmap_columns>>
  /\ UNCHANGED editVars

\* the registry delete is answered: deleteError -> thrown -> false; else the
\* RPC is sent
DeleteColumnDeleted(ok) ==
  /\ colOp.pc = "del_delete"
  /\ IF ~ok
     THEN /\ colLog' = Returned(Called(colLog, "delete", FALSE), "false", "StoreError")
          /\ colOp' = Idle
          /\ UNCHANGED column_config
     ELSE /\ colLog' = Called(colLog, "delete", TRUE)
          /\ colOp' = [colOp EXCEPT !.pc = "del_rpc"]
          /\ column_config' = DeleteById(column_config, colOp.columnId)
  /\ UNCHANGED roadmap_columns
  /\ UNCHANGED editVars

\* variant: the physical field is never dropped
DeleteColumnRpc_KeepsField(ok) ==
  /\ colOp.pc = "del_rpc"
  /\ LET r == RemovePhysicalField(roadmap_columns, colOp.columnName)
     IN colLog' = IF ok /\ ~r.error
                  THEN Returned(Called(colLog, "drop_column_from_roadmap", TRUE),
                                "true", "none")
                  ELSE Returned(Called(colLog, "drop_column_from_roadmap", FALSE),
                                "false", "RpcError")
  /\ colOp' = Idle
  /\ UNCHANGED <<column_config, roadmap_columns>>
  /\ UNCHANGED editVars

\* drop_column_from_roadmap is answered: rpcError -> false, the registry row
\* stays deleted
DeleteColumnRpc(ok) ==
  /\ colOp.pc = "del_rpc"
  /\ LET r == RemovePhysicalField(roadmap_columns, colOp.columnName)
     IN IF ok /\ ~r.error
        THEN /\ roadmap_columns' = r.fields
             /\ colLog' = Returned(Called(colLog, "drop_column_from_roadmap", TRUE),
                                   "true", "none")
        ELSE /\ UNCHANGED roadmap_columns
             /\ colLog' = Returned(Called(colLog, "drop_column_from_roadmap", FALSE),
                                   "false", "RpcError")
  /\ colOp' = Idle
  /\ UNCHANGED column_config
  /\ UNCHANGED editVars

\* ------------------------------------------------------------------ reorderColumns
\* reorderColumns up to its await: one update per id is sent
ReorderColumns(reorderedColumnIds) ==
  /\ colOp.pc = "idle"
  /\ Len(colLog) < MaxCalls
  /\ colLog' = Append(colLog, NewCall("reorderColumns", [ids |-> reorderedColumnIds]))
  /\ colOp' = IF reorderedColumnIds = <<>> THEN Idle
              ELSE [pc |-> "reorder", ids |-> reorderedColumnIds,
                    waiting |-> DOMAIN reorderedColumnIds, failed |-> FALSE]
  /\ UNCHANGED <<column_config, roadmap_columns>>
  /\ UNCHANGED editVars

\* variant: the update moves the column by its index instead of setting it
ReorderColumnsUpdated_Shifts(i, ok) ==
  /\ colOp.pc = "reorder"
  /\ i \in colOp.waiting
  /\ column_config' =
       IF ok
       THEN {IF c.id = colOp.ids[i] THEN [c EXCEPT !.sort_order = @ + i - 1] ELSE c :
               c \in column_config}
       ELSE column_config
  /\ LET waiting == colOp.waiting \ {i}
         failed == colOp.failed \/ ~ok
         log == Called(colLog, "update", ok)
     IN IF waiting # {}
        THEN /\ colOp' = [colOp EXCEPT !.waiting = waiting, !.failed = failed]
             /\ colLog' = log
        ELSE /\ colOp' = Idle
             /\ colLog' = Returned(log, IF failed THEN "false" ELSE "true",
                                   IF failed THEN "StoreError" ELSE "none")
  /\ UNCHANGED roadmap_columns
  /\ UNCHANGED editVars

\* the update of position i (sort_order: index) is answered; after the last
\* answer Promise.all resolves: any error -> thrown -> false
ReorderColumnsUpdated(i, ok) ==
  /\ colOp.pc = "reorder"
  /\ i \in colOp.waiting
  /\ column_config' = IF ok THEN UpdateById(column_config, colOp.ids[i], [sort_order |-> i - 1])
                      ELSE column_config
  /\ LET waiting == colOp.waiting \ {i}
         failed == colOp.failed \/ ~ok
         log == Called(colLog, "update", ok)
     IN IF waiting # {}
        THEN /\ colOp' = [colOp EXCEPT !.waiting = waiting, !.failed = failed]
             /\ colLog' = log
        ELSE /\ colOp' = Idle
             /\ colLog' = Returned(log, IF failed THEN "false" ELSE "true",
                                   IF failed THEN "StoreError" ELSE "none")
  /\ UNCHANGED roadmap_columns
  /\ UNCHANGED editVars

\* ------------------------------------------------------------------ the administrator
\* what the Add Column form can hand to addColumn
AddColumnParams ==
  {[column_name |-> n, display_name |-> "Custom", data_type |-> "text",
    is_visible |-> v] :
     n \in Names, v \in BOOLEAN}

\* what updateColumn can be handed for a column
UpdateColumnParams(id) ==
  {Spread(Spread(Spread([id |-> id], d), v), o) :
     d \in {Empty, [display_name |-> "Renamed"]},
     v \in {Empty, [is_visible |-> TRUE], [is_visible |-> FALSE]},
     o \in {Empty, [sort_order |-> 0]}}

\* the fields of a definition that UpdateColumnParams does not have
ImmutableFields == {"column_name", "data_type", "is_system_column"}

\* the interface is erased at run time: an object that also has one of the
\* other fields of a definition (one spread from a ColumnConfig, one that came
\* as JSON) can be handed to updateColumn all the same
UntypedColumnParams(id) ==
  {Spread(Spread([id |-> id], d), x) :
     d \in {Empty, [display_name |-> "Renamed"]},
     x \in {[column_name |-> <<"1">>], [data_type |-> "date"],
            [is_system_column |-> FALSE]}}

\* the columns a column list on screen can show: those of the registry now
\* or at an earlier call
KnownColumns ==
  column_config \cup UNION {colLog[i].before : i \in DOMAIN colLog}

\* the orders of all columns of the registry
Orders ==
  LET ids == {c.id : c \in column_config}
  IN {q \in [1..Cardinality(ids) -> ids] : \A i, j \in DOMAIN q : i # j => q[i] # q[j]}

ColNext ==
  \/ \E params \in AddColumnParams : AddColumn(params) /\ UNCHANGED dlgVars
  \/ \E ok \in BOOLEAN : AddColumnMaxRead(ok) /\ UNCHANGED dlgVars
  \/ \E ok \in BOOLEAN : AddColumnInserted(ok) /\ UNCHANGED dlgVars
  \/ \E ok \in BOOLEAN : AddColumnRpc(ok) /\ UNCHANGED dlgVars
  \/ \E ok \in BOOLEAN : AddColumnRollback(ok) /\ UNCHANGED dlgVars
  \/ \E c \in KnownColumns : \E params \in UpdateColumnParams(c.id) \cup UntypedColumnParams(c.id) :
        UpdateColumn(params) /\ UNCHANGED dlgVars
  \/ \E ok \in BOOLEAN : UpdateColumnAnswered(ok) /\ UNCHANGED dlgVars
  \/ \E c \in KnownColumns : DeleteColumn(c.id, c.column_name) /\ UNCHANGED dlgVars
  \/ \E ok \in BOOLEAN : DeleteColumnRead(ok) /\ UNCHANGED dlgVars
  \/ \E ok \in BOOLEAN : DeleteColumnDeleted(ok) /\ UNCHANGED dlgVars
  \/ \E ok \in BOOLEAN : DeleteColumnRpc(ok) /\ UNCHANGED dlgVars
  \/ \E ids \in Orders : ReorderColumns(ids) /\ UNCHANGED dlgVars
  \/ \E i \in 1..(Cardinality(SystemColumns) + MaxCalls), ok \in BOOLEAN :
        ReorderColumnsUpdated(i, ok) /\ UNCHANGED dlgVars

SpecCol == Init /\ [][ColNext]_vars

\* ------------------------------------------------------------------ ColumnManager
\* [...columns].sort((a, b) => a.sort_order - b.sort_order): a stable sort
RECURSIVE SortBySortOrder(_)
SortBySortOrder(list) ==
  IF list = <<>> THEN <<>>
  ELSE LET rest == SortBySortOrder(Tail(list))
           before == SelectSeq(rest, LAMBDA c : c.sort_order < Head(list).sort_order)
           after == SelectSeq(rest, LAMBDA c : c.sort_order >= Head(list).sort_order)
       IN before \o <<Head(list)>> \o after

\* the effect on [open, columns]: the local state is initialised from columns
InitLocal(m) ==
  IF m.open /\ Len(m.columns) > 0
  THEN [m EXCEPT !.localColumns = SortBySortOrder(m.columns), !.lastReorder = NoRec]
  ELSE m

\* localColumns.find((c) => c.id === id)
FindColumn(list, id) ==
  IF \E i \in DOMAIN list : list[i].id = id
  THEN list[CHOOSE i \in DOMAIN list : list[i].id = id /\ \A j \in 1..(i-1) : list[j].id # id]
  ELSE NoRec

\* sort_order: newSortOrder++ over a list, starting at first
Renumbered(list, first) ==
  [i \in DOMAIN list |-> [list[i] EXCEPT !.sort_order = first + i - 1]]

\* handleReorder: the new localColumns for the ids a column list hands over
Reordered(localColumns, reorderedIds) ==
  LET otherColumns == SelectSeq(localColumns,
                                LAMBDA col : col.id \notin Range(reorderedIds))
      firstReordered == IF reorderedIds = <<>> THEN NoRec
                        ELSE FindColumn(localColumns, reorderedIds[1])
      isSystemReorder == IF firstReordered = NoRec THEN FALSE
                         ELSE firstReordered.is_system_column
      found == SelectSeq(reorderedIds, LAMBDA id : FindColumn(localColumns, id) # NoRec)
      group == [i \in DOMAIN found |-> FindColumn(localColumns, found[i])]
      sortedOther == SortBySortOrder(SelectSeq(otherColumns,
                                               LAMBDA col : ~col.is_system_column))
      sortedSystem == SortBySortOrder(SelectSeq(otherColumns,
                                                LAMBDA col : col.is_system_column))
  IN IF isSystemReorder
     THEN Renumbered(group, 0) \o Renumbered(sortedOther, Len(group))
     ELSE Renumbered(sortedSystem, 0) \o Renumbered(group, Len(sortedSystem))

\* what a column list hands to onReorder after a drag: the ids of the group
\* it shows, in their new order
ReorderInputs(localColumns) ==
  LET system == {localColumns[i].id : i \in {j \in DOMAIN localColumns :
                                              localColumns[j].is_system_column}}
      custom == {localColumns[i].id : i \in {j \in DOMAIN localColumns :
                                              ~localColumns[j].is_system_column}}
  IN (IF system = {} THEN {} ELSE Perms(system)) \cup
     (IF custom = {} THEN {} ELSE Perms(custom))

\* the dialog is open and no handler of it is waiting
DialogIdle == manager.open /\ manager.pc = "idle" /\ colOp.pc = "idle"

\* the parent opens the dialog
OpenDialog ==
  /\ ~manager.open /\ manager.pc = "idle"
  /\ manager' = InitLocal([manager EXCEPT !.open = TRUE])
  /\ UNCHANGED <<refetchEvents, colVars, editVars>>

HandleToggleVisibility(id) ==
  /\ DialogIdle
  /\ LET prev == manager.localColumns
     IN manager' = [manager EXCEPT !.localColumns =
                      [i \in DOMAIN prev |->
                         IF prev[i].id = id
                         THEN [prev[i] EXCEPT !.is_visible = ~prev[i].is_visible]
                         ELSE prev[i]]]
  /\ UNCHANGED <<refetchEvents, colVars, editVars>>

HandleReorder(reorderedIds) ==
  /\ DialogIdle
  /\ manager' = [manager EXCEPT !.localColumns = Reordered(@, reorderedIds),
                                !.lastReorder =
                                   [ids |-> reorderedIds,
                                    before |-> [i \in DOMAIN manager.localColumns |->
                                                  manager.localColumns[i].id]]]
  /\ UNCHANGED <<refetchEvents, colVars, editVars>>

\* handleAddColumn up to its await
HandleAddColumn(params) ==
  /\ DialogIdle
  /\ AddColumn(params)
  /\ manager' = [manager EXCEPT !.pc = "mutation"]
  /\ UNCHANGED refetchEvents

\* handleSaveEdit up to its await: the custom column's display name
HandleSaveEdit(editingColumn, editDisplayName) ==
  /\ DialogIdle
  /\ UpdateColumn([id |-> editingColumn.id, display_name |-> editDisplayName])
  /\ manager' = [manager EXCEPT !.pc = "mutation"]
  /\ UNCHANGED refetchEvents

\* handleConfirmDelete up to its await
HandleConfirmDelete(deletingColumn) ==
  /\ DialogIdle
  /\ DeleteColumn(deletingColumn.id, deletingColumn.column_name)
  /\ manager' = [manager EXCEPT !.pc = "mutation"]
  /\ UNCHANGED refetchEvents

\* the mutation has returned: on success `await refetch()` (answered with
\* the rows or with an error, which fetchColumns swallows), then the effect
\* on columns
AfterMutation(ok) ==
  /\ manager.pc = "mutation" /\ colOp.pc = "idle"
  /\ \E q \in FetchedColumns(column_config) :
       manager' = IF LastCall.result \in {"data", "true"} /\ ok
                  THEN InitLocal([manager EXCEPT !.pc = "idle", !.columns = q])
                  ELSE [manager EXCEPT !.pc = "idle"]
  /\ UNCHANGED <<refetchEvents, colVars, editVars>>

\* the visibility updates handleSave issues: one per local column whose
\* is_visible differs from the fetched one
VisibilityUpdates(m) ==
  LET changed == SelectSeq(m.localColumns,
                   LAMBDA localCol :
                     /\ FindColumn(m.columns, localCol.id) # NoRec
                     /\ FindColumn(m.columns, localCol.id).is_visible # localCol.is_visible)
  IN [i \in DOMAIN changed |-> [id |-> changed[i].id, is_visible |-> changed[i].is_visible]]

\* reorderColumns(localColumns.map((col) => col.id)) is called
SaveReorder ==
  /\ ReorderColumns([i \in DOMAIN manager.localColumns |-> manager.localColumns[i].id])
  /\ manager' = [manager EXCEPT !.pc = "save_reorder", !.pending = <<>>]

\* the next visibility update of the save, or after the last one the reorder.
\* (The updates are for different rows and their results are not looked at;
\* they are issued one after the other here.)
SaveStep(pending) ==
  IF pending # <<>>
  THEN /\ UpdateColumn(pending[1])
       /\ manager' = [manager EXCEPT !.pc = "save_visibility", !.pending = Tail(pending)]
  ELSE SaveReorder

\* handleSave up to its first await
HandleSave ==
  /\ DialogIdle
  /\ Len(colLog) + Len(VisibilityUpdates(manager)) < MaxCalls
  /\ SaveStep(VisibilityUpdates(manager))
  /\ UNCHANGED refetchEvents

\* a visibility update has returned
HandleSaveNext ==
  /\ manager.pc = "save_visibility" /\ colOp.pc = "idle"
  /\ SaveStep(manager.pending)
  /\ UNCHANGED refetchEvents

\* reorderColumns has returned (true or false): onOpenChange(false), refetch()
HandleSaveClose ==
  /\ manager.pc = "save_reorder" /\ colOp.pc = "idle"
  /\ manager' = [manager EXCEPT !.open = FALSE, !.pc = "save_refetch"]
  /\ UNCHANGED <<refetchEvents, colVars, editVars>>

\* refetch().then(() => triggerColumnRefetch()): fetchColumns never rejects
HandleSaveRefetched(ok) ==
  /\ manager.pc = "save_refetch"
  /\ \E q \in FetchedColumns(column_config) :
       manager' = [manager EXCEPT !.pc = "event", !.columns = IF ok THEN q ELSE @]
  /\ refetchEvents' = Append(refetchEvents, Len(colLog))
  /\ UNCHANGED <<colVars, editVars>>

\* handleRefetch of the mounted useColumns: fetchColumns once more
HandleRefetch(ok) ==
  /\ manager.pc = "event"
  /\ \E q \in FetchedColumns(column_config) :
       manager' = InitLocal([manager EXCEPT !.pc = "idle", !.columns = IF ok THEN q ELSE @])
  /\ UNCHANGED <<refetchEvents, colVars, editVars>>

\* handleCancel, the user confirming when asked
HandleCancel ==
  /\ DialogIdle
  /\ manager' = [manager EXCEPT !.open = FALSE, !.localColumns = manager.columns,
                                !.lastReorder = NoRec]
  /\ UNCHANGED <<refetchEvents, colVars, editVars>>

\* the names typed into the form: one that is in use, one that is new, one
\* that fails the format test
FormNames == {<<"a">>, <<"a", "1">>, <<"A">>}

\* what AddColumnForm.handleSubmit hands to onAdd: it returns early on a name
\* that fails the format test
FormParams ==
  {p \in AddColumnParams : ValidColumnName(p.column_name) /\ p.column_name \in FormNames}

\* the rows of the custom list, which has the edit and delete buttons
CustomCols == {c \in Range(manager.localColumns) : ~c.is_system_column}

ManagerNext ==
  \/ OpenDialog
  \/ \E c \in Range(manager.localColumns) : HandleToggleVisibility(c.id)
  \/ \E ids \in ReorderInputs(manager.localColumns) : HandleReorder(ids)
  \/ \E params \in FormParams : HandleAddColumn(params)
  \/ \E c \in CustomCols : HandleSaveEdit(c, "Renamed")
  \/ \E c \in CustomCols : HandleConfirmDelete(c)
  \/ \E ok \in BOOLEAN : AfterMutation(ok)
  \/ HandleSave
  \/ HandleSaveNext
  \/ HandleSaveClose
  \/ \E ok \in BOOLEAN : HandleSaveRefetched(ok)
  \/ \E ok \in BOOLEAN : HandleRefetch(ok)
  \/ HandleCancel
  \/ \E ok \in BOOLEAN : AddColumnMaxRead(ok) /\ UNCHANGED dlgVars
  \/ \E ok \in BOOLEAN : AddColumnInserted(ok) /\ UNCHANGED dlgVars
  \/ \E ok \in BOOLEAN : AddColumnRpc(ok) /\ UNCHANGED dlgVars
  \/ \E ok \in BOOLEAN : AddColumnRollback(ok) /\ UNCHANGED dlgVars
  \/ \E ok \in BOOLEAN : UpdateColumnAnswered(ok) /\ UNCHANGED dlgVars
  \/ \E ok \in BOOLEAN : DeleteColumnRead(ok) /\ UNCHANGED dlgVars
  \/ \E ok \in BOOLEAN : DeleteColumnDeleted(ok) /\ UNCHANGED dlgVars
  \/ \E ok \in BOOLEAN : DeleteColumnRpc(ok) /\ UNCHANGED dlgVars
  \/ \E i \in 1..(Cardinality(SystemColumns) + MaxCalls), ok \in BOOLEAN :
        ReorderColumnsUpdated(i, ok) /\ UNCHANGED dlgVars

SpecManager == Init /\ [][ManagerNext]_vars

\* ------------------------------------------------------------------ observations on the log
RowHist(r) == SelectSeq(hist, LAMBDA e : e.row = r)

\* how many edits a row's log starts with
LeadingEdits(h) ==
  CHOOSE n \in 0..Len(h) :
    /\ \A i \in 1..n : h[i].t = "edit"
    /\ n = Len(h) \/ h[n + 1].t # "edit"

\* the flush failed: updateInitiative took its error branch
Failed(f) == f.fetch # 0

\* Row r has received n >= 1 edits with immediate = false on distinct fields
\* in one debounce window (each after the first found the row's buffer and
\* timer of the one before), then its debounce timer fired, and no further
\* edit.
DebounceWindow(r) ==
  LET h == RowHist(r)
      n == LeadingEdits(h)
  IN /\ n >= 1
     /\ Len(h) > n
     /\ h[n + 1].cause = "timer"
     /\ \A i \in 1..n : ~h[i].imm
     /\ \A i \in 2..n : ~h[i].first
     /\ \A i, j \in 1..n : i # j => h[i].field # h[j].field
     /\ \A j \in (n + 2)..Len(h) : h[j].t # "edit"

\* C1: N >= 1 non-immediate edits to distinct fields of a row, all before the
\* row's debounce timer fires, give exactly one store update for the row; it
\* carries all N fields with their values; once it has resolved, no cell of
\* the row is marked saving.
C1_OneFlushPerWindow ==
  \A r \in Rows :
    DebounceWindow(r) =>
      LET h == RowHist(r)
          n == LeadingEdits(h)
          u == h[n + 1]
      IN /\ Len(h) = n + 1
         /\ DOMAIN u.updates = {h[i].field : i \in 1..n}
         /\ DOMAIN u.updates \subseteq DOMAIN u.payload
         /\ \A i \in 1..n : u.updates[h[i].field] = h[i].value
         /\ flushes[u.flush].stage = "done" =>
              ~(\E c \in savingCells : c[1] = r)

\* two edits were coalesced into one update, which has resolved
C1_Witness ==
  \E r \in Rows :
    /\ DebounceWindow(r)
    /\ LeadingEdits(RowHist(r)) >= 2
    /\ flushes[RowHist(r)[LeadingEdits(RowHist(r)) + 1].flush].stage = "done"

\* C2: after a failed flush every field of its payload is back at
\* the value the in-memory record had before the first coalesced edit was
\* recorded, and updateInitiative returns false.
C2_RevertsToPreEdit ==
  \A k \in DOMAIN flushes :
    Failed(flushes[k]) =>
      /\ \A c \in DOMAIN flushes[k].payload :
            flushes[k].reverted[c] = flushes[k].preEdit[c]
      /\ flushes[k].stage = "done" => flushes[k].result = "false"

\* C3: no recorded edit is discarded unsent: every edit in the log
\* is still buffered or was part of a later update of its row.
C3_NoEditDropped ==
  \A i \in DOMAIN hist :
    hist[i].t = "edit" =>
      \/ hist[i].field \in DOMAIN pendingUpdates[hist[i].row]
      \/ \E j \in (i + 1)..Len(hist) :
            /\ hist[j].t = "update"
            /\ hist[j].row = hist[i].row
            /\ hist[i].field \in DOMAIN hist[j].updates

Updates == SelectSeq(hist, LAMBDA e : e.t = "update")

\* every object updateInitiative can be handed over the modelled columns
StringPayloads ==
  {u \in UNION {[cols -> UNION {Values(c) : c \in StringFields}] : cols \in SUBSET StringFields} :
     \A c \in DOMAIN u : u[c] \in Values(c)}

Payloads ==
  StringPayloads \cup
    {Spread(u, [priority_rank |-> r]) : u \in StringPayloads, r \in {NoRank, 1, 2}}

\* C10: an update whose payload sets Status to 'Completed' sets priority_rank
\* to null in that same update, whatever rank the payload carried; a flush
\* issues one update, so the null is not written by a second call.
C10_CompletedNullsRank ==
  /\ \A i \in DOMAIN Updates :
        /\ Updates[i].flush = i
        /\ Updates[i].payload = flushes[i].payload
        /\ ("Status" \in DOMAIN Updates[i].payload /\ Updates[i].payload["Status"] = "Completed")
             => /\ "priority_rank" \in DOMAIN Updates[i].payload
                /\ Updates[i].payload["priority_rank"] = NoRank
  /\ Len(Updates) = Len(flushes)
  /\ \A updates \in Payloads :
        ("Status" \in DOMAIN updates /\ updates["Status"] = "Completed")
          => /\ "priority_rank" \in DOMAIN CleanedUpdates(updates)
             /\ CleanedUpdates(updates)["priority_rank"] = NoRank

\* a flush that completed a ranked row was applied: the store row is
\* 'Completed' without a rank
C10_Witness ==
  \E k \in DOMAIN flushes :
    /\ flushes[k].stage = "done"
    /\ flushes[k].result = "true"
    /\ flushes[k].updates = [Status |-> "Completed"]
    /\ flushes[k].previous.priority_rank # NoRank
    /\ store[flushes[k].row].Status = "Completed"
    /\ store[flushes[k].row].priority_rank = NoRank

\* ------------------------------------------------------------------ observations on the column log
\* a call of op has returned and nothing was called since
Done(op) == colLog # <<>> /\ colOp.pc = "idle" /\ LastCall.op = op

Issued(l, what) == \E j \in DOMAIN l.calls : l.calls[j].call = what

CallOk(l, what) == \E j \in DOMAIN l.calls : l.calls[j].call = what /\ l.calls[j].ok

CallFailed(l, what) == \E j \in DOMAIN l.calls : l.calls[j].call = what /\ ~l.calls[j].ok

ColumnNames(table) == {c.column_name : c \in table}

\* addColumn inserted its row and add_column_to_roadmap then failed
InsertedThenRpcFailed ==
  /\ Done("addColumn")
  /\ CallOk(LastCall, "insert")
  /\ CallFailed(LastCall, "add_column_to_roadmap")

C5_RegistryWithinFields ==
  colOp.pc = "idle" => ColumnNames(column_config) \subseteq roadmap_columns

\* the last call was deleteColumn for a definition that was a system column
DeleteOfSystemColumn ==
  /\ colLog # <<>>
  /\ LastCall.op = "deleteColumn"
  /\ \E c \in LastCall.before :
        c.id = LastCall.params.columnId /\ c.is_system_column

\* C6: deleteColumn on a system column returns false (Forbidden), sends no
\* registry delete and no drop_column_from_roadmap, and leaves the registry
\* and the physical columns as they were.
C6_SystemDeleteRefused ==
  DeleteOfSystemColumn =>
    /\ ~Issued(LastCall, "delete")
    /\ ~Issued(LastCall, "drop_column_from_roadmap")
    /\ column_config = LastCall.before
    /\ roadmap_columns = LastCall.beforeFields
    /\ colOp.pc = "idle" => LastCall.result = "false" /\ LastCall.error = "Forbidden"

\* C7: every system column of the initial registry is still a row of the
\* registry, still a system column, and still a physical column.
C7_SystemColumnsRemain ==
  \A c \in SystemColumns :
    /\ \E d \in column_config : d.id = c.id /\ d.is_system_column
    /\ c.column_name \in roadmap_columns

\* the last call was addColumn with a column_name the registry already had
AddOfExistingName ==
  /\ colLog # <<>>
  /\ LastCall.op = "addColumn"
  /\ LastCall.params.column_name \in ColumnNames(LastCall.before)

\* C8: addColumn with a column_name already in the registry fails with the
\* duplicate-key error, sends no add_column_to_roadmap, and leaves the column
\* list unchanged.
C8_DuplicateNameRejected ==
  AddOfExistingName =>
    /\ ~Issued(LastCall, "add_column_to_roadmap")
    /\ column_config = LastCall.before
    /\ colOp.pc = "idle" => LastCall.result = "null" /\ LastCall.error = "DuplicateKey"

\* C8 (amended): addColumn with a column_name already in the registry returns
\* null, sends no add_column_to_roadmap, and leaves the column list
\* unchanged; the error is the duplicate-key error when the name has the
\* required format and the insert reaches the registry, the format error
\* when the name does not have the format (no store call is made then).
C8_ExistingNameRejected ==
  AddOfExistingName =>
    /\ ~Issued(LastCall, "add_column_to_roadmap")
    /\ column_config = LastCall.before
    /\ colOp.pc = "idle" =>
          /\ LastCall.result = "null"
          /\ IF ~ValidColumnName(LastCall.params.column_name)
             THEN LastCall.error = "InvalidName" /\ LastCall.calls = <<>>
             ELSE LastCall.error \in {"DuplicateKey", "StoreError"}
          /\ LastCall.error = "DuplicateKey" => Issued(LastCall, "insert")

\* an existing lower-case name was offered again and the registry refused it
C8_Witness ==
  /\ AddOfExistingName
  /\ colOp.pc = "idle"
  /\ LastCall.error = "DuplicateKey"
  /\ Issued(LastCall, "insert")

\* the greatest of a non-empty set of numbers
Max(S) == CHOOSE m \in S : \A n \in S : n <= m

\* addColumn was given a well-formed name the registry did not have, and its
\* three calls (max read, insert, RPC) succeeded
AddOfNewNameAllOk ==
  /\ Done("addColumn")
  /\ ValidColumnName(LastCall.params.column_name)
  /\ LastCall.params.column_name \notin ColumnNames(LastCall.before)
  /\ Len(LastCall.calls) = 3
  /\ \A j \in DOMAIN LastCall.calls : LastCall.calls[j].ok

\* C9: addColumn with a well-formed, new column_name whose store and gateway
\* calls succeed returns the new definition; the column list is the list
\* before plus that definition, whose sort_order is the greatest sort_order
\* before the call plus 1 and whose is_system_column is false.
C9_ValidNameAdded ==
  /\ \A params \in AddColumnParams :
        ValidColumnName(params.column_name) <=>
          /\ params.column_name # <<>>
          /\ params.column_name[1] = "a"
          /\ \A i \in 2..Len(params.column_name) : params.column_name[i] # "A"
  /\ AddOfNewNameAllOk =>
        /\ LastCall.result = "data"
        /\ \E c \in column_config :
              /\ c.column_name = LastCall.params.column_name
              /\ column_config = LastCall.before \cup {c}
              /\ c \notin LastCall.before
              /\ ~c.is_system_column
              /\ LastCall.before # {} =>
                    c.sort_order = Max({d.sort_order : d \in LastCall.before}) + 1
        /\ LastCall.params.column_name \in roadmap_columns

\* a column was added to a registry whose greatest sort_order had been
\* changed by an earlier call
C9_Witness ==
  /\ AddOfNewNameAllOk
  /\ Len(colLog) = MaxCalls
  /\ LastCall.before # SystemColumns
  /\ LastCall.before # {}
  /\ LastCall.result = "data"

\* ------------------------------------------------------------------ C11
\* C11: in every reachable state, every record whose Status is 'Completed'
\* has a null priority_rank, in the in-memory list and in the store.
C11_CompletedHaveNoRank ==
  /\ \A i \in DOMAIN initiatives :
       initiatives[i].Status = "Completed" => initiatives[i].priority_rank = NoRank
  /\ \A r \in Rows : store[r].Status = "Completed" => store[r].priority_rank = NoRank

\* ------------------------------------------------------------------ C12
\* the ranks of the non-Completed records of a list are pairwise distinct and
\* are exactly 1..N; the Completed records have none
RanksDense(list) ==
  LET open == NonCompleted(list)
  IN /\ \A i, j \in DOMAIN open :
          i # j => open[i].priority_rank # open[j].priority_rank
     /\ {open[i].priority_rank : i \in DOMAIN open} = 1..Len(open)
     /\ \A i \in DOMAIN list :
          list[i].Status = "Completed" => list[i].priority_rank = NoRank

\* fetch i hands its rows to the rank computation in this step
AssignerRuns(i) == fetches[i].stage = "served" /\ fetches'[i].stage # "served"

\* C12: when the rank computation of fetchInitiatives has run, the records
\* with its deltas applied carry ranks that are exactly 1..N over the N
\* non-Completed records, pairwise distinct, and null on Completed records,
\* also when some non-Completed records carried a rank before the run.
C12_RanksDenseAfterRun ==
  [][\A i \in DOMAIN fetches : AssignerRuns(i) => RanksDense(initiatives')]_vars

\* ------------------------------------------------------------------ C13
\* Promise.all of the rank writes, every one applied by the store
RECURSIVE RankWritesApplied(_, _)
RankWritesApplied(st, writes) ==
  IF writes = {} THEN st
  ELSE LET w == CHOOSE x \in writes : TRUE
       IN RankWritesApplied(StoreUpdate(st, w.ID, [priority_rank |-> w.priority_rank]),
                            writes \ {w})

\* the deltas a second run computes when the first run read the store as it
\* is now, its deltas were applied and nothing else changed
SecondRunDeltas ==
  LET needed == UpdatesNeeded(SelectAll(store))
  IN UpdatesNeeded(SelectAll(RankWritesApplied(store, needed)))

\* C13: the rank computation run twice in a row, the first run's deltas
\* applied and nothing else changed in between, computes no delta the second
\* time (updatesNeeded is empty, no store update is issued).
C13_SecondRunNoDeltas == SecondRunDeltas = {}

\* a fetch has read the store as it is now and its run computes deltas
C13_Witness ==
  \E i \in DOMAIN fetches :
    /\ fetches[i].stage = "served"
    /\ fetches[i].data = SelectAll(store)
    /\ UpdatesNeeded(fetches[i].data) # {}

\* ------------------------------------------------------------------ C14
\* the sort_order of every column of a registry, by id
SortOrders(table) == {<<c.id, c.sort_order>> : c \in table}

\* the last two calls are reorderColumns with the same ids, the first
\* returned true and the second has returned
ReorderedTwice ==
  /\ Len(colLog) >= 2
  /\ Done("reorderColumns")
  /\ colLog[Len(colLog) - 1].op = "reorderColumns"
  /\ colLog[Len(colLog) - 1].result = "true"
  /\ colLog[Len(colLog) - 1].params.ids = LastCall.params.ids

\* C14: reorderColumns is idempotent: applying the same ordered id sequence
\* a second time leaves every column's sort_order at the value it had after
\* the first application.
C14_ReorderIdempotent ==
  ReorderedTwice => SortOrders(column_config) = SortOrders(LastCall.before)

\* the second application's updates were all applied, to an order that
\* the first application had changed
C14_Witness ==
  /\ ReorderedTwice
  /\ LastCall.result = "true"
  /\ SortOrders(LastCall.before) # SortOrders(colLog[Len(colLog) - 1].before)

\* ------------------------------------------------------------------ C15
AllCallsOk(l) == \A j \in DOMAIN l.calls : l.calls[j].ok

\* the call before the last added a column, every call of it succeeding, and
\* the last call deleted that column, every call of it succeeding
AddedThenDeleted ==
  /\ Len(colLog) >= 2
  /\ Done("deleteColumn")
  /\ LET add == colLog[Len(colLog) - 1]
     IN /\ add.op = "addColumn" /\ add.result = "data" /\ AllCallsOk(add)
        /\ LastCall.result = "true" /\ AllCallsOk(LastCall)
        /\ LastCall.params.columnName = add.params.column_name
        /\ \E c \in LastCall.before \ add.before : c.id = LastCall.params.columnId

\* C15: adding a custom column and deleting it right away, every call
\* succeeding, leaves the column list and the set of physical fields as they
\* were before the add.
C15_AddThenDeleteRestores ==
  AddedThenDeleted =>
    /\ column_config = colLog[Len(colLog) - 1].before
    /\ roadmap_columns = colLog[Len(colLog) - 1].beforeFields

\* in between, the column and its field were there
C15_Witness ==
  /\ AddedThenDeleted
  /\ LastCall.before # colLog[Len(colLog) - 1].before
  /\ LastCall.beforeFields # colLog[Len(colLog) - 1].beforeFields

\* ------------------------------------------------------------------ C16
\* the sort_order the registry holds for a column id (-1: no such column)
SortOrderOf(id) ==
  IF \E c \in column_config : c.id = id
  THEN (CHOOSE c \in column_config : c.id = id).sort_order
  ELSE -1

\* a handleReorder result has been saved: reorderColumns applied every update
\* and the dialog has just closed
ReorderSaved ==
  /\ manager.pc = "save_refetch"
  /\ manager.lastReorder # NoRec
  /\ LastCall.op = "reorderColumns" /\ LastCall.result = "true"

\* the ids of a list of ids, in its order, that are not among ids
OtherIds(list, ids) == SelectSeq(list, LAMBDA id : id \notin Range(ids))

InOrder(ids) == \A i, j \in DOMAIN ids : i < j => SortOrderOf(ids[i]) < SortOrderOf(ids[j])

SuccessfulMutation(j) == colLog[j].result \in {"data", "true"}

\* a 'columns:refetch' event was dispatched after call j had returned
PublishedAfter(j) == \E e \in DOMAIN refetchEvents : refetchEvents[e] >= j

\* the dialog is closed and no handler, mutation or refetch of it is pending
DialogSettled == ~manager.open /\ manager.pc = "idle" /\ colOp.pc = "idle"

\* C17: every successful mutation of the registry (add, rename, visibility,
\* reorder, delete) is followed by a triggerColumnRefetch publication, also
\* when the dialog is afterwards closed with Cancel or saving fails: once the
\* dialog is closed and settled, no successful mutation is left unpublished.
C17_MutationsPublished ==
  DialogSettled => \A j \in DOMAIN colLog : SuccessfulMutation(j) => PublishedAfter(j)

\* ------------------------------------------------------------------ C18
\* nothing is outstanding: no buffered edit, no timer, no update or select
\* in flight, no rank write unanswered, no mode exit waiting
Settled ==
  /\ \A r \in Rows : pendingUpdates[r] = Empty
  /\ updateTimeout = {}
  /\ timers = {}
  /\ toggles = {}
  /\ \A k \in DOMAIN flushes : flushes[k].stage = "done"
  /\ \A i \in DOMAIN fetches : fetches[i].stage = "done"

\* flush k is a flush of cell edits that failed
FailedCellFlush(k) == flushes[k].cause # "popup" /\ flushes[k].result = "false"

\* C18: after a cell-edit flush has failed (optimistic value rolled back,
\* list refetched), once the refetch and every other outstanding operation
\* have settled the in-memory record of the row equals the store's record.
C18_SettledMatchesStore ==
  Settled =>
    \A k \in DOMAIN flushes :
      FailedCellFlush(k) => Find(initiatives, flushes[k].row) = store[flushes[k].row]

\* ------------------------------------------------------------------ C19
\* flushes j and k of one row were in flight together, cover different
\* fields, and j succeeded while k failed
OneFailedOneSucceeded(j, k) ==
  /\ j # k
  /\ flushes[j].row = flushes[k].row
  /\ j \in flushes[k].together \/ k \in flushes[j].together
  /\ DOMAIN flushes[j].payload \cap DOMAIN flushes[k].payload = {}
  /\ flushes[j].result = "true"
  /\ flushes[k].result = "false"

\* C19: when two flushes of one row covering different fields are in flight
\* together and one fails while the other succeeds, then after both have
\* settled the in-memory record shows the successful flush's values in its
\* fields and the pre-edit values in the failed flush's fields only.
C19_RollbackKeepsOtherEdit ==
  Settled =>
    \A j, k \in DOMAIN flushes :
      OneFailedOneSucceeded(j, k) =>
        LET rec == Find(initiatives, flushes[k].row)
        IN /\ \A c \in DOMAIN flushes[j].payload : rec[c] = flushes[j].payload[c]
           /\ \A c \in DOMAIN flushes[k].payload : rec[c] = flushes[k].previous[c]

\* ------------------------------------------------------------------ C20
\* addColumn's add_column_to_roadmap failed and its compensating delete
\* failed as well
RpcAndRollbackFailed ==
  /\ Done("addColumn")
  /\ CallFailed(LastCall, "add_column_to_roadmap")
  /\ CallFailed(LastCall, "rollback")

\* C20: when in addColumn the physical-field addition fails and the
\* compensating delete of the inserted definition fails too, the operation
\* surfaces a PartialFailure error, distinct from the gateway's own error.
C20_PartialFailureSurfaced ==
  RpcAndRollbackFailed => LastCall.error = "PartialFailure"

\* ------------------------------------------------------------------ C21
\* C21: in every reachable state at most one debounce timer is armed per
\* row, and a timer is armed for a row only while the row has a non-empty
\* pending-edit buffer entry.
C21_OneTimerPerBufferedRow ==
  /\ \A g, h \in timers : g.row = h.row => g = h
  /\ \A h \in timers : pendingUpdates[h.row] # Empty

\* a second debounced edit of a row has replaced the timer of the first
C21_Witness ==
  /\ timers # {}
  /\ \E i, j \in DOMAIN hist :
       /\ i < j
       /\ hist[i].t = "edit" /\ hist[j].t = "edit"
       /\ hist[i].row = hist[j].row
       /\ ~hist[i].imm /\ ~hist[j].imm
       /\ ~hist[j].first

\* ------------------------------------------------------------------ C22
\* the step is a handleCellSave(rowId, columnName, newValue, true)
ImmediateSave(rowId, columnName, newValue) ==
  /\ Len(hist') > Len(hist)
  /\ LET e == hist'[Len(hist) + 1]
     IN e.t = "edit" /\ e.imm /\ e.row = rowId /\ e.field = columnName
        /\ e.value = newValue

\* the fields of the update recorded at j were all edited after the row's
\* update before it
FromEditsSince(h, j) ==
  LET r == h[j].row
      before == {k \in 1..(j - 1) : h[k].t = "update" /\ h[k].row = r}
      last == IF before = {} THEN 0 ELSE CHOOSE k \in before : \A l \in before : l <= k
  IN /\ DOMAIN h[j].updates # {}
     /\ \A f \in DOMAIN h[j].updates :
          \E k \in (last + 1)..(j - 1) :
            /\ h[k].t = "edit" /\ h[k].row = r /\ h[k].field = f
            /\ h[k].value = h[j].updates[f]

\* C22: a handleCellSave with immediate = true cancels the row's armed timer
\* and flushes at once: the update it issues holds the new field together
\* with every field buffered for the row, afterwards the row has neither a
\* buffer entry nor a timer, and every update ever issued holds only fields
\* edited since the row's previous update (nothing is sent a second time).
C22_ImmediateFlushesAll ==
  [][/\ \A rowId \in Rows, columnName \in EditableColumns :
          \A newValue \in Values(columnName) :
            ImmediateSave(rowId, columnName, newValue) =>
              /\ Len(hist') = Len(hist) + 2
              /\ LET u == hist'[Len(hist) + 2]
                 IN /\ u.t = "update" /\ u.row = rowId /\ u.cause = "immediate"
                    /\ u.updates = Spread(pendingUpdates[rowId],
                                          [c \in {columnName} |-> newValue])
                    /\ flushes'[u.flush].stage = "sent"
              /\ pendingUpdates'[rowId] = Empty
              /\ \A h \in timers' \cup updateTimeout' : h.row # rowId
     /\ \A j \in DOMAIN hist' : hist'[j].t = "update" => FromEditsSince(hist', j)
    ]_vars

\* an immediate save has flushed its field together with one buffered before
\* it, whose timer it cancelled
C22_Witness ==
  \E j \in DOMAIN hist :
    /\ hist[j].t = "update" /\ hist[j].cause = "immediate"
    /\ Cardinality(DOMAIN hist[j].updates) = 2
    /\ j > 2 /\ hist[j - 1].t = "edit" /\ hist[j - 1].imm
    /\ \E k \in 1..(j - 2) : hist[k].t = "edit" /\ ~hist[k].imm /\ hist[k].row = hist[j].row
    /\ pendingUpdates[hist[j].row] = Empty
    /\ \A h \in timers : h.row # hist[j].row

\* ------------------------------------------------------------------ C23
\* the updates that carry the edit recorded at i: later updates of its row
\* with its field and value, no other edit of that cell in between
SentIn(i) ==
  {j \in (i + 1)..Len(hist) :
     /\ hist[j].t = "update"
     /\ hist[j].row = hist[i].row
     /\ hist[i].field \in DOMAIN hist[j].updates
     /\ hist[j].updates[hist[i].field] = hist[i].value
     /\ \A k \in (i + 1)..(j - 1) :
          ~(hist[k].t = "edit" /\ hist[k].row = hist[i].row
            /\ hist[k].field = hist[i].field)}

\* the edit recorded at i is in its row's buffer
Buffered(i) ==
  /\ hist[i].field \in DOMAIN pendingUpdates[hist[i].row]
  /\ pendingUpdates[hist[i].row][hist[i].field] = hist[i].value

\* C23: an edit recorded for a row while a flush of that row is in flight is
\* not part of that flush's payload; it is held in the row's buffer until a
\* later flush sends it, and it is sent once: it is neither lost nor sent
\* twice.
C23_EditDuringFlushKept ==
  \A i \in DOMAIN hist :
    (hist[i].t = "edit" /\ hist[i].during # {}) =>
      /\ \A k \in hist[i].during : \A j \in SentIn(i) : hist[j].flush # k
      /\ Buffered(i) \/ SentIn(i) # {}
      /\ ~Buffered(i) => Cardinality(SentIn(i)) = 1

\* ------------------------------------------------------------------ C24
\* the processBatchedUpdate calls of row r that have not resolved
InFlight(r) ==
  {k \in DOMAIN flushes : flushes[k].row = r /\ flushes[k].stage # "done"}

\* C24: for any single row at most one flush is in flight at any time.
C24_OneFlushInFlightPerRow ==
  \A r \in Rows : Cardinality(InFlight(r)) <= 1

\* ------------------------------------------------------------------ C25
\* the values a definition of the registry was created with: a system
\* column's by the migration, a custom column's by the addColumn call that
\* inserted it
CreatedAs(c) ==
  IF \E d \in SystemColumns : d.id = c.id
  THEN CHOOSE d \in SystemColumns : d.id = c.id
  ELSE LET params == colLog[c.id - Cardinality(SystemColumns)].params
       IN [column_name |-> params.column_name, data_type |-> params.data_type,
           is_system_column |-> FALSE]

ImmutableKept ==
  \A c \in column_config :
    /\ c.column_name = CreatedAs(c).column_name
    /\ c.data_type = CreatedAs(c).data_type
    /\ c.is_system_column = CreatedAs(c).is_system_column

\* the updateColumn calls that were handed column_name, data_type or
\* is_system_column and have returned
ImmutableAttempts ==
  {i \in DOMAIN colLog :
     /\ colLog[i].op = "updateColumn"
     /\ DOMAIN colLog[i].params \cap ImmutableFields # {}
     /\ colLog[i].result # "pending"}

\* C25 as stated: updateColumn changes only display_name, is_visible and
\* sort_order; an attempt to change column_name, data_type or
\* is_system_column fails with InvalidMutation; these three attributes of a
\* definition always equal the values at its creation.
C25_ImmutableChangeRejected ==
  /\ ImmutableKept
  /\ \A i \in ImmutableAttempts :
       colLog[i].result = "false" /\ colLog[i].error = "InvalidMutation"

\* C25, amended: updateColumn writes only display_name, is_visible and
\* sort_order; column_name, data_type and is_system_column in its argument
\* are left out of the update without an error, the call returning true
\* exactly when the store accepted the update; these three attributes of a
\* definition always equal the values at its creation.
C25_ImmutableChangeIgnored ==
  /\ ImmutableKept
  /\ \A i \in ImmutableAttempts :
       /\ colLog[i].result = "true" <=> CallOk(colLog[i], "update")
       /\ colLog[i].result = "false" <=> CallFailed(colLog[i], "update")
       /\ colLog[i].error # "InvalidMutation"

\* a custom column was added; an updateColumn handed a new column_name and a
\* new display_name for it has returned true: the display name is changed
C25_Witness ==
  /\ Done("updateColumn")
  /\ Len(colLog) \in ImmutableAttempts
  /\ "column_name" \in DOMAIN LastCall.params
  /\ LastCall.result = "true"
  /\ \E c \in column_config :
       c.id = LastCall.params.id /\ ~c.is_system_column /\ c.display_name = "Renamed"

\* ------------------------------------------------------------------ C26
\* the sort_order values of a registry are pairwise distinct and without a gap
DistinctAndDense(table) ==
  LET used == {c.sort_order : c \in table}
  IN /\ \A c, d \in table : c.sort_order = d.sort_order => c = d
     /\ \A a, b \in used : \A n \in a..b : n \in used

\* every call so far was addColumn, deleteColumn or reorderColumns, and all
\* have returned
OnlyAddDeleteReorder ==
  /\ colOp.pc = "idle"
  /\ \A i \in DOMAIN colLog : colLog[i].op \in {"addColumn", "deleteColumn", "reorderColumns"}

\* C26: after any sequence of addColumn, deleteColumn and reorderColumns
\* calls, a reorderColumns with some of its parallel updates failing
\* included, the sort_order values of the registry are pairwise distinct and
\* dense.
C26_SortOrdersDistinctDense ==
  OnlyAddDeleteReorder => DistinctAndDense(column_config)

\* ------------------------------------------------------------------ the rank-assignment cycle on its own
\* The page is mounted and left alone: fetchInitiatives, its rank writes and
\* the refetch they end in, from any record set.  A fetchInitiatives call
\* that has finished is forgotten, so the chain is followed without a bound
\* on its length.

\* the record sets the table can hold: any Status and any rank, none included
RecordSets ==
  {[r \in Rows |-> Row(r, st[r], IF r = 1 THEN "a" ELSE "b", rk[r], r - 1)] :
     st \in [Rows -> {"Active", "Completed"}], rk \in [Rows -> {NoRank, 1, 2}]}

RankInit ==
  /\ store \in RecordSets
  /\ initiatives = <<>>
  /\ loading = TRUE
  /\ isEditMode = FALSE
  /\ savingCells = {}
  /\ pendingUpdates = [r \in Rows |-> Empty]
  /\ updateTimeout = {}
  /\ timers = {}
  /\ flushes = <<>>
  /\ toggles = {}
  /\ fetches = <<[stage |-> "sent", writes |-> {}, waiter |-> 0, data |-> <<>>]>>
  /\ nToggles = 0
  /\ popup = [initiative |-> 0, pending |-> NoRec]
  /\ orders = <<>>
  /\ editSnapshot = [r \in Rows |-> NoRec]
  /\ hist = <<>>
  /\ ColInit
  /\ ManagerInit

\* the fetchInitiatives calls that have run to their end are dropped
Forget(s) == [s EXCEPT !.fetches = SelectSeq(@, LAMBDA f : f.stage # "done")]

CycleServed ==
  /\ fetches # <<>> /\ fetches[1].stage = "sent"
  /\ Commit(SelectServed(Cur, 1))
  /\ UNCHANGED nToggles

CycleLoaded ==
  /\ fetches # <<>> /\ fetches[1].stage = "served"
  /\ Commit(Forget(FetchReturned(Cur, 1)))
  /\ UNCHANGED nToggles

CycleFailed ==
  /\ fetches # <<>> /\ fetches[1].stage = "sent"
  /\ Commit(Forget(FetchThrown(Cur, 1)))
  /\ UNCHANGED nToggles

CycleWriteAnswered(w, ok) ==
  /\ fetches # <<>> /\ fetches[1].stage = "writing"
  /\ w \in fetches[1].writes
  /\ Commit(Forget(RankWrite(Cur, 1, w, ok)))
  /\ UNCHANGED nToggles

\* the rank writes a fetchInitiatives call can have outstanding
RankWrites == {[ID |-> r, priority_rank |-> k] : r \in Rows, k \in {NoRank, 1, 2}}

RankNext ==
  \/ CycleServed
  \/ CycleLoaded
  \/ CycleFailed
  \/ \E w \in RankWrites, ok \in BOOLEAN : CycleWriteAnswered(w, ok)

\* every request that is outstanding is answered in the end
SpecRank == RankInit /\ [][RankNext]_vars /\ WF_vars(RankNext)

\* ------------------------------------------------------------------ C27
\* C27: the rank-assignment cycle of fetchInitiatives terminates: from any
\* record set the chain fetch, rank writes, refetch reaches a fetch that
\* issues no further writes, also when rank writes are rejected by the store;
\* from then on no fetch and no write is outstanding.
C27_RankCycleTerminates == <>[](fetches = <<>>)

\* ------------------------------------------------------------------ C28
\* the cells with an edit waiting in the pending buffer
BufferedCells ==
  {<<r, f>> : r \in Rows, f \in Fields} \cap
  {c \in Rows \X Fields : c[2] \in DOMAIN pendingUpdates[c[1]]}

\* the cells of the cell flushes that have not resolved
FlushingCells ==
  UNION {{<<flushes[k].row, f>> : f \in DOMAIN flushes[k].updates} :
           k \in {j \in DOMAIN flushes :
                    flushes[j].stage # "done" /\ flushes[j].cause # "popup"}}

\* C28: whenever savingCells is empty in edit mode (the header shows 'All
\* changes saved') no edit waits in the pending buffer and no flush is in
\* flight; equivalently, in every state, edit mode left or not, every cell
\* that is buffered or being flushed is marked in savingCells.
C28_SavedMeansNothingOutstanding ==
  /\ (isEditMode /\ savingCells = {}) => (BufferedCells = {} /\ FlushingCells = {})
  /\ BufferedCells \cup FlushingCells \subseteq savingCells

\* ------------------------------------------------------------------ InitiativePopup: the debounced save
\* The popup's auto-save step by step: handleFieldChange hands {[field]:
\* value} to debouncedSave, a trailing debounce of 500 ms: a call within the
\* wait replaces the arguments of the call that is pending and restarts the
\* wait; when the wait ends the callback runs once, with the arguments of
\* the last call.

Changes == SelectSeq(hist, LAMBDA e : e.t = "change")

\* handleRowClick: the popup opens on a row of the list
HandleRowClick(id) ==
  /\ popup.initiative = 0
  /\ ~loading
  /\ Find(initiatives, id) # NoRec
  /\ Commit([Cur EXCEPT !.popup.initiative = id])
  /\ UNCHANGED nToggles

\* handleFieldChange of an existing initiative: debouncedSave(updates)
HandleFieldChange(field, value) ==
  /\ popup.initiative # 0
  /\ Len(Changes) < MaxChanges
  /\ Commit([Cur EXCEPT
               !.popup.pending = [id |-> popup.initiative,
                                  updates |-> [c \in {field} |-> value]],
               !.hist = Append(@, [t |-> "change", row |-> popup.initiative,
                                   field |-> field, value |-> value])])
  /\ UNCHANGED nToggles

\* the 500 ms have passed: the callback runs with the pending arguments.
\* Which render's callback the library runs is its own matter: the
\* initiative is the one of the render of the call or the one of the latest
\* render; with none (the popup was closed) the callback returns at once.
DebouncedSave(target) ==
  /\ popup.pending # NoRec
  /\ target \in {popup.pending.id, popup.initiative}
  /\ LET s1 == [Cur EXCEPT !.popup.pending = NoRec]
     IN IF target = 0 \/ Find(initiatives, target) = NoRec
        THEN Commit(s1)
        ELSE Commit(UpdateInitiative(s1, target, popup.pending.updates, "popup"))
  /\ UNCHANGED nToggles

\* onClose of the popup: setSelectedInitiative(null); refetch()
OnClose ==
  /\ popup.initiative # 0
  /\ Len(fetches) < MaxPopupFetches
  /\ Commit(FetchInitiatives([Cur EXCEPT !.popup.initiative = 0], 0))
  /\ UNCHANGED nToggles

DebounceNext ==
  \/ \E id \in Rows : HandleRowClick(id)
  \/ \E field \in StringFields : \E value \in PopupValues(field) :
        HandleFieldChange(field, value)
  \/ \E target \in Rows \cup {0} : DebouncedSave(target)
  \/ OnClose
  \/ \E k \in DOMAIN flushes : UpdateSucceeded(k)
  \/ \E k \in DOMAIN flushes : UpdateFailed(k)
  \/ \E i \in DOMAIN fetches : FetchServed(i)
  \/ \E i \in DOMAIN fetches : FetchLoaded(i)
  \/ \E i \in DOMAIN fetches : FetchFailed(i)
  \/ \E i \in DOMAIN fetches : \E w \in fetches[i].writes, ok \in BOOLEAN :
        RankWriteAnswered(i, w, ok)

\* a timer that is armed fires and a request that is outstanding is answered
SpecDebounce == Init /\ [][DebounceNext]_vars /\ WF_vars(DebounceNext)

\* ------------------------------------------------------------------ C29
\* the n-th entry of the log is a field change of the popup
ChangeAt(n) == n \in DOMAIN hist /\ hist[n].t = "change"

\* the change logged at n was passed to onUpdate: a later update of its
\* initiative holds its field with its value
PassedAt(n) ==
  /\ ChangeAt(n)
  /\ \E j \in (n + 1)..Len(hist) :
       /\ hist[j].t = "update" /\ hist[j].cause = "popup"
       /\ hist[j].row = hist[n].row
       /\ hist[n].field \in DOMAIN hist[j].updates
       /\ hist[j].updates[hist[n].field] = hist[n].value

\* the change logged at n was followed by another change of the same field
\* of the same initiative
Superseded(n) ==
  /\ ChangeAt(n)
  /\ \E m \in (n + 1)..Len(hist) :
       /\ hist[m].t = "change" /\ hist[m].row = hist[n].row
       /\ hist[m].field = hist[n].field

\* every change logged so far was passed to onUpdate or superseded
AllChangesPassed ==
  \A n \in DOMAIN hist : ChangeAt(n) => (PassedAt(n) \/ Superseded(n))

\* C29: in the initiative popup every field change to an existing initiative
\* is eventually passed to onUpdate, unless the same field is changed again
\* first; when two different fields are changed within the 500 ms debounce
\* window, both changes are saved.  (The log only grows and a change that
\* was passed stays passed: every change is eventually passed exactly when,
\* from some point on, all logged changes are.)
C29_EveryChangePassed == <>[]AllChangesPassed

\* ------------------------------------------------------------------ updateInitiativeOrder
\* arrayMove(list, from, to) of @dnd-kit/sortable: the element at from is
\* taken out and put in at to
ArrayMove(list, from, to) ==
  LET without == [i \in 1..(Len(list) - 1) |-> IF i < from THEN list[i] ELSE list[i + 1]]
  IN [i \in 1..Len(list) |->
        IF i < to THEN without[i]
        ELSE IF i = to THEN list[from]
        ELSE without[i - 1]]

\* updates: sort_order is the index (from 0), priority_rank the index among
\* the non-Completed records (from 1), null for a Completed record
OrderUpdates(updatedInitiatives) ==
  {[ID |-> updatedInitiatives[i].ID,
    sort_order |-> i - 1,
    priority_rank |-> IF updatedInitiatives[i].Status = "Completed" THEN NoRank
                      ELSE FindIndex(NonCompleted(updatedInitiatives),
                                     updatedInitiatives[i].ID)] :
     i \in DOMAIN updatedInitiatives}

\* updatedWithNewRanks
UpdatedWithNewRanks(updatedInitiatives, updates) ==
  [i \in DOMAIN updatedInitiatives |->
     LET update == CHOOSE u \in updates : u.ID = updatedInitiatives[i].ID
     IN [updatedInitiatives[i] EXCEPT !.sort_order = update.sort_order,
                                      !.priority_rank = update.priority_rank]]

\* updateInitiativeOrder: the list is replaced at once, the writes are sent
\* and not awaited.  (Observer, notApplied: the writes the store did not
\* apply.)
UpdateInitiativeOrder(s, updatedInitiatives) ==
  LET updates == OrderUpdates(updatedInitiatives)
  IN [s EXCEPT !.initiatives = UpdatedWithNewRanks(updatedInitiatives, updates),
               !.orders = Append(@, [list |-> [i \in DOMAIN updatedInitiatives |->
                                                 updatedInitiatives[i].ID],
                                     writes |-> updates, caught |-> FALSE,
                                     notApplied |-> {}])]

\* ListView.handleRowDragEnd: a row is dropped on another one;
\* Home.handleReorder hands the moved list to updateInitiativeOrder
HandleReorderRows(oldIndex, newIndex) ==
  /\ ~loading
  /\ oldIndex \in DOMAIN initiatives /\ newIndex \in DOMAIN initiatives
  /\ oldIndex # newIndex
  /\ Len(orders) < MaxReorders
  /\ Commit(UpdateInitiativeOrder(Cur, ArrayMove(initiatives, oldIndex, newIndex)))
  /\ UNCHANGED nToggles

\* One of the parallel writes of call b is answered.  "ok": the store applied
\* it.  "error": the store refused it; the promise of the write is fulfilled
\* with { error } and Promise.all goes on.  "thrown": the promise of the
\* write is rejected; the first rejection rejects Promise.all and runs the
\* catch: toast, fetchInitiatives().
OrderWriteAnswered(b, w, outcome) ==
  /\ w \in orders[b].writes
  /\ (outcome = "thrown" /\ ~orders[b].caught) => Len(fetches) < MaxFetches
  /\ LET s1 == [Cur EXCEPT
                  !.store = IF outcome = "ok"
                            THEN StoreUpdate(@, w.ID, [sort_order |-> w.sort_order,
                                                       priority_rank |-> w.priority_rank])
                            ELSE @,
                  !.orders[b].writes = @ \ {w},
                  !.orders[b].notApplied = IF outcome = "ok" THEN @ ELSE @ \cup {w},
                  !.orders[b].caught = @ \/ outcome = "thrown"]
     IN IF outcome = "thrown" /\ ~orders[b].caught
        THEN Commit(FetchInitiatives(s1, 0))
        ELSE Commit(s1)
  /\ UNCHANGED nToggles

OrderNext ==
  \/ \E oldIndex, newIndex \in 1..Cardinality(Rows) : HandleReorderRows(oldIndex, newIndex)
  \/ \E b \in DOMAIN orders : \E w \in orders[b].writes :
        \E outcome \in {"ok", "error", "thrown"} : OrderWriteAnswered(b, w, outcome)
  \/ \E i \in DOMAIN fetches : FetchServed(i)
  \/ \E i \in DOMAIN fetches : FetchLoaded(i)
  \/ \E i \in DOMAIN fetches : FetchFailed(i)
  \/ \E i \in DOMAIN fetches : \E w \in fetches[i].writes, ok \in BOOLEAN :
        RankWriteAnswered(i, w, ok)

\* from any record set, so that the fetches of the run meet records without
\* a rank as well
SpecOrder == RankInit /\ [][OrderNext]_vars

\* ------------------------------------------------------------------ C30
\* nothing is outstanding: every background write is answered and every
\* fetchInitiatives call has run to its end
OrderSettled ==
  /\ orders # <<>>
  /\ \A b \in DOMAIN orders : orders[b].writes = {}
  /\ \A i \in DOMAIN fetches : fetches[i].stage = "done"

\* sort_order and priority_rank of every record in memory are the store's
OrderAsStored ==
  \A i \in DOMAIN initiatives :
    /\ initiatives[i].sort_order = store[initiatives[i].ID].sort_order
    /\ initiatives[i].priority_rank = store[initiatives[i].ID].priority_rank

\* C30: updateInitiativeOrder applies the new sort_order and priority_rank
\* values to memory at once and writes them to the store in the background;
\* if any store write fails, the failure is reported and the list is
\* refetched, so that after settling the in-memory order and ranks equal the
\* store's.
C30_FailedOrderWriteRefetched ==
  /\ \A b \in DOMAIN orders : orders[b].notApplied # {} => orders[b].caught
  /\ OrderSettled => OrderAsStored

====
